---- MODULE Spec2Model ----
(***************************************************************************)
(* Candidate fusion and conflict resolution of the Italian medical NER.    *)
(*                                                                         *)
(* Conventions of the model:                                               *)
(*  - confidences, scores, thresholds and bonuses are integers counting    *)
(*    hundredths (0.95 is 95); every constant of the code is a multiple of *)
(*    0.01 and len(text)/100 is len(text) hundredths, so the arithmetic is *)
(*    exact decimal arithmetic;                                            *)
(*  - a text is a sequence of one-character strings; each character stands *)
(*    for its class: "a","b" letters, "1" a digit, " " whitespace,         *)
(*    "_" the underscore, "." any other punctuation;                       *)
(*  - offsets are 0-based and spans half open, as in Python: the slice     *)
(*    text[start:end] is Slice(text, start, end);                          *)
(*  - the tagger pipelines and the regular-expression searches are         *)
(*    external: what they return for the text is an input of the call      *)
(*    (taggerOut, patternMatches, dictMatches, morphMatches, boosterHits). *)
(***************************************************************************)
EXTENDS Integers, Sequences, FiniteSets, TLC

VARIABLES
    pc,                   \* position of the predict call
    text,                 \* argument text
    apply_enhancement,    \* argument apply_enhancement
    confidence_threshold, \* self.confidence_threshold of the model
    taggerOut,            \* pipeline name -> results of pipeline_obj(text)
    patternMatches,       \* matches of re.finditer over all_patterns, in order
    dictMatches,          \* matches of re.finditer over the dictionary terms
    morphMatches,         \* word tokens that belong to a morphological family
    boosterHits,          \* booster terms re.search finds in the context
    entities,             \* local variable entities of predict
    taggerCalls,          \* number of pipeline_obj(text) calls made
    result,               \* value returned by the model's predict
    candidates,           \* argument of a direct call of a merge or a filter
    output,               \* value returned by that call
    output2,              \* value returned when the call is repeated on output
    config,               \* PipelineConfig of the integrated pipeline
    kwargs,               \* keyword arguments of IntegratedItalianMedicalNER.predict
    original_threshold,   \* local variable original_threshold of that predict
    stats,                \* model_performance_stats of the configured level
    response,             \* value returned (or exception raised) by that predict
    caller,               \* "direct": the model's predict is called directly,
                          \* "integrated": through IntegratedItalianMedicalNER
    raising,              \* pipelines and patterns whose call raises
    threads,              \* thread -> locals of its concurrent integrated predict
    tokens,               \* argument tokens of _apply_pattern_enhancement
    predictions,          \* the caller's list passed as argument predictions
    confidence_scores,    \* argument confidence_scores
    processed,            \* local variable processed of _post_process_bioes
    loop_i                \* local variable i of _post_process_bioes

\* The variables of a direct call of EnhancedItalianMedicalNER's helpers
enhancedVars == <<tokens, predictions, confidence_scores, processed, loop_i>>

vars == <<pc, text, apply_enhancement, confidence_threshold, taggerOut,
          patternMatches, dictMatches, morphMatches, boosterHits, entities,
          taggerCalls, result, candidates, output, output2, config, kwargs,
          original_threshold, stats, response, caller, raising, threads, enhancedVars>>

----------------------------------------------------------------------------
(* Bounds of the model                                                     *)

MaxTagger == 2
MaxMatches == 2
MaxCands == 3
MaxPos == 3
MaxFilterEnts == 1
MaxFilterTextLen == 2

----------------------------------------------------------------------------
(* Generic helpers                                                         *)

Min(a, b) == IF a <= b THEN a ELSE b
Max(a, b) == IF a >= b THEN a ELSE b

SeqsUpTo(S, n) == UNION {[1..k -> S] : k \in 0..n}

\* text[start:end] for 0 <= start <= end <= len(text)
Slice(t, start, end) == SubSeq(t, start + 1, end)

IsSpace(c) == c = " "
IsDigit(c) == c = "1"
\* \w : letters, digits and the underscore
IsWordChar(c) == c \in {"a", "b", "1", "_"}

RECURSIVE LStrip(_)
LStrip(t) == IF t = <<>> THEN t
             ELSE IF IsSpace(Head(t)) THEN LStrip(Tail(t)) ELSE t

RECURSIVE RStrip(_)
RStrip(t) == IF t = <<>> THEN t
             ELSE IF IsSpace(t[Len(t)]) THEN RStrip(SubSeq(t, 1, Len(t) - 1))
             ELSE t

\* str.strip()
Strip(t) == RStrip(LStrip(t))

\* Do the spans of two entities overlap
Overlap(a, b) == a.start < b.end /\ b.start < a.end

NoOverlaps(ents) ==
    \A i, j \in 1..Len(ents) : i # j => ~Overlap(ents[i], ents[j])

----------------------------------------------------------------------------
(* FinalOptimizedItalianMedicalNER: static resources                       *)

Pipelines == <<"simple", "max", "average", "first">>

ModelSource(p) ==
    CASE p = "simple"  -> "model_simple"
      [] p = "max"     -> "model_max"
      [] p = "average" -> "model_average"
      [] p = "first"   -> "model_first"

\* pattern_type.split('_')[0]
EntityLabel(pattern_type) ==
    CASE pattern_type \in {"PROBLEM_comprehensive", "PROBLEM_edge"}     -> "PROBLEM"
      [] pattern_type \in {"TREATMENT_comprehensive", "TREATMENT_edge"} -> "TREATMENT"
      [] pattern_type \in {"TEST_comprehensive", "TEST_edge"}           -> "TEST"

\* 'comprehensive' in pattern_type
IsComprehensive(pattern_type) ==
    pattern_type \in {"PROBLEM_comprehensive", "TREATMENT_comprehensive",
                      "TEST_comprehensive"}

\* family name -> entity type in _apply_morphological_analysis
FamilyLabel(family) ==
    CASE family \in {"dolor_family", "febbre_family", "infezione_family"} -> "PROBLEM"
      [] family \in {"terapia_family", "farmaco_family"}                  -> "TREATMENT"
      [] family \in {"esame_family", "analisi_family"}                    -> "TEST"

\* self.contextual_boosters, in the iteration order of the dict
contextual_boosters ==
    << <<"paziente", 8>>, <<"malato", 6>>, <<"persona", 4>>, <<"soggetto", 4>>,
       <<"medico", 6>>, <<"dottore", 6>>, <<"specialista", 5>>,
       <<"ospedale", 6>>, <<"clinica", 6>>, <<"ambulatorio", 5>>,
       <<"prescritto", 10>>, <<"somministrato", 10>>, <<"assunto", 8>>,
       <<"terapia", 6>>, <<"trattamento", 6>>, <<"cura", 5>>,
       <<"efficace", 7>>, <<"miglioramento", 7>>, <<"guarigione", 8>>,
       <<"risultati", 8>>, <<"referto", 8>>, <<"rapporto", 6>>,
       <<"mostra", 6>>, <<"rivela", 6>>, <<"conferma", 7>>,
       <<"presenza", 5>>, <<"segni", 5>>, <<"reperti", 5>>,
       <<"presenta", 6>>, <<"manifesta", 6>>, <<"lamenta", 6>>,
       <<"soffre", 6>>, <<"accusa", 5>>, <<"riferisce", 5>>,
       <<"persistente", 5>>, <<"ricorrente", 5>>, <<"cronico", 5>>,
       <<"grave", 5>>, <<"severo", 5>>, <<"acuto", 5>> >>

----------------------------------------------------------------------------
(* _optimized_ensemble_predict                                             *)

RECURSIVE PipelineEntities(_, _, _)
PipelineEntities(results, p, thr) ==
    IF results = <<>> THEN <<>>
    ELSE LET r == Head(results)
             rest == PipelineEntities(Tail(results), p, thr)
         IN IF r.score >= thr
            THEN <<[text |-> r.word, label |-> r.entity_group,
                    start |-> r.start, end |-> r.end,
                    confidence |-> Min(95, r.score),
                    source |-> ModelSource(p),
                    contextual_boost |-> 0]>> \o rest
            ELSE rest

\* Variant of EnsembleFrom: the first pipeline that raises ends the loop
RECURSIVE EnsembleFromAbort(_, _, _, _)
EnsembleFromAbort(i, out, thr, fails) ==
    IF i > Len(Pipelines) \/ Pipelines[i] \in fails THEN <<>>
    ELSE PipelineEntities(out[Pipelines[i]], Pipelines[i], thr)
         \o EnsembleFromAbort(i + 1, out, thr, fails)

\* The loop over self.pipelines: a pipeline whose call raises contributes
\* nothing and the loop continues with the next one
RECURSIVE EnsembleFrom(_, _, _, _)
EnsembleFrom(i, out, thr, fails) ==
    IF i > Len(Pipelines) THEN <<>>
    ELSE IF Pipelines[i] \in fails
         THEN EnsembleFrom(i + 1, out, thr, fails)
         ELSE PipelineEntities(out[Pipelines[i]], Pipelines[i], thr)
              \o EnsembleFrom(i + 1, out, thr, fails)

OptimizedEnsemblePredict(out, thr, fails) == EnsembleFrom(1, out, thr, fails)

----------------------------------------------------------------------------
(* Overlap tests used by the pre-filters                                   *)

SpansOf(ents) == {<<ents[i].start, ents[i].end>> : i \in 1..Len(ents)}

HasSignificantOverlap(new_span, existing_spans) ==
    LET new_length == new_span[2] - new_span[1]
    IN \E ex \in existing_spans :
          LET overlap_start == Max(new_span[1], ex[1])
              overlap_end == Min(new_span[2], ex[2])
              overlap_length == overlap_end - overlap_start
              existing_length == ex[2] - ex[1]
          IN /\ overlap_start < overlap_end
             /\ \/ (new_length > 0 /\ 2 * overlap_length > new_length)
                \/ (existing_length > 0 /\ 2 * overlap_length > existing_length)

HasOverlap(new_span, existing_spans) ==
    \E ex \in existing_spans : new_span[1] < ex[2] /\ new_span[2] > ex[1]

----------------------------------------------------------------------------
(* _apply_all_patterns, _apply_ultra_dictionary,                           *)
(* _apply_morphological_analysis                                           *)

\* ms are the matches of the patterns in the order of the search; a pattern
\* whose re.finditer raises delivers none of its matches and is skipped
RECURSIVE PatternLoop(_, _, _, _, _)
PatternLoop(t, ms, enhanced, found, fails) ==
    IF ms = <<>> THEN enhanced
    ELSE LET m == Head(ms)
             span == <<m.start, m.end>>
         IN IF m.pattern_type \in fails
            THEN PatternLoop(t, Tail(ms), enhanced, found, fails)
            ELSE IF ~HasSignificantOverlap(span, found)
            THEN PatternLoop(t, Tail(ms),
                     Append(enhanced,
                        [text |-> Strip(Slice(t, m.start, m.end)),
                         label |-> EntityLabel(m.pattern_type),
                         start |-> m.start, end |-> m.end,
                         confidence |-> IF IsComprehensive(m.pattern_type)
                                        THEN 85 ELSE 80,
                         source |-> "pattern_matching",
                         contextual_boost |-> 0]),
                     found \cup {span}, fails)
            ELSE PatternLoop(t, Tail(ms), enhanced, found, fails)

ApplyAllPatterns(t, existing, ms, fails) ==
    PatternLoop(t, ms, existing, SpansOf(existing), fails)

RECURSIVE DictionaryLoop(_, _, _, _)
DictionaryLoop(t, ms, enhanced, found) ==
    IF ms = <<>> THEN enhanced
    ELSE LET m == Head(ms)
             span == <<m.start, m.end>>
         IN IF ~HasOverlap(span, found)
            THEN DictionaryLoop(t, Tail(ms),
                     Append(enhanced,
                        [text |-> Slice(t, m.start, m.end),
                         label |-> m.entity_type,
                         start |-> m.start, end |-> m.end,
                         confidence |-> 75,
                         source |-> "dictionary_lookup",
                         contextual_boost |-> 0]),
                     found \cup {span})
            ELSE DictionaryLoop(t, Tail(ms), enhanced, found)

ApplyUltraDictionary(t, existing, ms) ==
    DictionaryLoop(t, ms, existing, SpansOf(existing))

RECURSIVE MorphLoop(_, _, _, _)
MorphLoop(t, ms, enhanced, found) ==
    IF ms = <<>> THEN enhanced
    ELSE LET m == Head(ms)
             span == <<m.start, m.end>>
         IN IF ~HasOverlap(span, found)
            THEN MorphLoop(t, Tail(ms),
                     Append(enhanced,
                        [text |-> Slice(t, m.start, m.end),
                         label |-> FamilyLabel(m.family),
                         start |-> m.start, end |-> m.end,
                         confidence |-> 70,
                         source |-> "morphological_analysis",
                         contextual_boost |-> 0]),
                     found \cup {span})
            ELSE MorphLoop(t, Tail(ms), enhanced, found)

ApplyMorphologicalAnalysis(t, existing, ms) ==
    MorphLoop(t, ms, existing, SpansOf(existing))

----------------------------------------------------------------------------
(* _apply_contextual_boosting                                              *)

\* The loop over self.contextual_boosters: sum of the values of the terms
\* found in the context, stopping after the third match.
RECURSIVE BoostFrom(_, _, _)
BoostFrom(i, hits, matched) ==
    IF i > Len(contextual_boosters) \/ matched >= 3 THEN 0
    ELSE IF contextual_boosters[i][1] \in hits
         THEN contextual_boosters[i][2] + BoostFrom(i + 1, hits, matched + 1)
         ELSE BoostFrom(i + 1, hits, matched)

\* The texts of the model are shorter than the 100-character window, so the
\* context of every entity is the whole text and hits is the same for all.
ApplyContextualBoosting(ents, hits) ==
    LET boost == BoostFrom(1, hits, 0)
    IN [i \in 1..Len(ents) |->
           [ents[i] EXCEPT !.confidence = Min(95, ents[i].confidence + boost),
                           !.contextual_boost = boost]]

----------------------------------------------------------------------------
(* _intelligent_entity_merging and _resolve_conflict_proper                *)

\* source_bonus.get(entity.get('source', ''), 0)
SourceBonus(source) ==
    CASE source = "model_simple"           -> 10
      [] source = "model_max"              -> 10
      [] source = "model_average"          -> 8
      [] source = "pattern_matching"       -> 8
      [] source = "dictionary_lookup"      -> 5
      [] source = "morphological_analysis" -> 3
      [] OTHER                             -> 0

\* Variant of CalculateQualityScore: the source bonus is left out
CalculateQualityScoreNoBonus(e) ==
    Min(95, e.confidence + Min(2, Len(e.text)))

\* calculate_quality_score
CalculateQualityScore(e) ==
    Min(95, e.confidence + SourceBonus(e.source) + Min(2, Len(e.text)))

\* Variant of ResolveConflictProper: the end of the winner is the smaller of
\* the two ends
ResolveConflictProperMinEnd(entity1, entity2) ==
    LET score1 == CalculateQualityScore(entity1)
        score2 == CalculateQualityScore(entity2)
        winner == IF score1 >= score2 THEN entity1 ELSE entity2
    IN [winner EXCEPT !.confidence = Min(95, Max(score1, score2)),
                      !.start = Min(entity1.start, entity2.start),
                      !.end = Min(entity1.end, entity2.end)]

ResolveConflictProper(entity1, entity2) ==
    LET score1 == CalculateQualityScore(entity1)
        score2 == CalculateQualityScore(entity2)
        winner == IF score1 >= score2 THEN entity1 ELSE entity2
    IN [winner EXCEPT !.confidence = Min(95, Max(score1, score2)),
                      !.start = Min(entity1.start, entity2.start),
                      !.end = Max(entity1.end, entity2.end)]

\* list.sort(key=lambda x: x['start']): a stable sort by start
RECURSIVE InsertByStart(_, _)
InsertByStart(e, s) ==
    IF s = <<>> THEN <<e>>
    ELSE IF Head(s).start <= e.start
         THEN <<Head(s)>> \o InsertByStart(e, Tail(s))
         ELSE <<e>> \o s

\* Variant of SortByStart: the list is left in the order it came in
SortByStartUnsorted(s) == s

RECURSIVE SortByStart(_)
SortByStart(s) ==
    IF s = <<>> THEN <<>>
    ELSE InsertByStart(s[Len(s)], SortByStart(SubSeq(s, 1, Len(s) - 1)))

\* Variant of MergeLoop: the last current entity is not appended
RECURSIVE MergeLoopNoFinalAppend(_, _, _)
MergeLoopNoFinalAppend(current_entity, rest, merged) ==
    IF rest = <<>> THEN merged
    ELSE LET next_entity == Head(rest)
         IN IF /\ current_entity.end > next_entity.start
               /\ current_entity.start < next_entity.end
            THEN MergeLoopNoFinalAppend(
                     ResolveConflictProper(current_entity, next_entity),
                     Tail(rest), merged)
            ELSE MergeLoopNoFinalAppend(next_entity, Tail(rest),
                                        Append(merged, current_entity))

\* The for loop of _intelligent_entity_merging and the final append
RECURSIVE MergeLoop(_, _, _)
MergeLoop(current_entity, rest, merged) ==
    IF rest = <<>> THEN Append(merged, current_entity)
    ELSE LET next_entity == Head(rest)
         IN IF /\ current_entity.end > next_entity.start
               /\ current_entity.start < next_entity.end
            THEN MergeLoop(ResolveConflictProper(current_entity, next_entity),
                           Tail(rest), merged)
            ELSE MergeLoop(next_entity, Tail(rest),
                           Append(merged, current_entity))

\* Variant of IntelligentEntityMerging: the loop runs over the list as it came
IntelligentEntityMergingNoSort(ents) ==
    IF ents = <<>> THEN ents
    ELSE MergeLoop(Head(ents), Tail(ents), <<>>)

IntelligentEntityMerging(ents) ==
    IF ents = <<>> THEN ents
    ELSE LET sorted == SortByStart(ents)
         IN MergeLoop(Head(sorted), Tail(sorted), <<>>)

----------------------------------------------------------------------------
(* _final_quality_filter                                                   *)

\* re.match(r'^[\W\d\s]+$', s) on a stripped string s
PunctOrNumberOnly(s) ==
    /\ s # <<>>
    /\ \A i \in 1..Len(s) : ~IsWordChar(s[i]) \/ IsDigit(s[i]) \/ IsSpace(s[i])

\* Variant of FinalQualityFilter: the confidence is not clamped
RECURSIVE FinalQualityFilterNoClamp(_, _)
FinalQualityFilterNoClamp(ents, thr) ==
    IF ents = <<>> THEN <<>>
    ELSE LET entity == Head(ents)
             rest == FinalQualityFilterNoClamp(Tail(ents), thr)
             stripped == Strip(entity.text)
         IN IF Len(stripped) < 2 /\ entity.confidence < 80 THEN rest
            ELSE IF PunctOrNumberOnly(stripped) THEN rest
            ELSE IF entity.confidence >= thr /\ stripped # <<>>
                 THEN <<[entity EXCEPT !.text = stripped]>> \o rest
                 ELSE rest

RECURSIVE FinalQualityFilter(_, _)
FinalQualityFilter(ents, thr) ==
    IF ents = <<>> THEN <<>>
    ELSE LET entity == Head(ents)
             rest == FinalQualityFilter(Tail(ents), thr)
             stripped == Strip(entity.text)
             clamped == Max(0, Min(95, entity.confidence))
         IN IF Len(stripped) < 2 /\ entity.confidence < 80 THEN rest
            ELSE IF PunctOrNumberOnly(stripped) THEN rest
            ELSE IF clamped >= thr /\ stripped # <<>>
                 THEN <<[entity EXCEPT !.confidence = clamped,
                                       !.text = stripped]>> \o rest
                 ELSE rest

----------------------------------------------------------------------------
(* FinalOptimizedItalianMedicalNER.predict                                 *)

\* Variant of IsBlank: only the empty text counts (if not text)
IsBlankEmptyOnly(t) == t = <<>>

\* not text or not text.strip()
IsBlank(t) == t = <<>> \/ Strip(t) = <<>>

\* The entities of the result of predict for a non-blank text
PredictEntities(t, out, pm, dm, mm, hits, thr, enh, fails) ==
    LET model == OptimizedEnsemblePredict(out, thr, fails)
    IN IF enh
       THEN SortByStart(FinalQualityFilter(IntelligentEntityMerging(
                ApplyContextualBoosting(
                    ApplyMorphologicalAnalysis(t,
                        ApplyUltraDictionary(t,
                            ApplyAllPatterns(t, model, pm, fails), dm), mm),
                    hits)), thr))
       ELSE SortByStart(FinalQualityFilter(model, thr))

\* The dict returned for a non-blank text (statistics reduced to the fields
\* the properties are about)
PredictResult(t, ents, thr, enh) ==
    [text |-> t,
     entities |-> ents,
     total_entities |-> Len(ents),
     confidence_threshold |-> thr,
     enhancement_applied |-> enh,
     confidence_range_valid |->
        \A i \in 1..Len(ents) : 0 <= ents[i].confidence /\ ents[i].confidence <= 100]

\* The dict returned for an empty or whitespace-only text
EmptyPredictResult(t) == [text |-> t, entities |-> <<>>, total_entities |-> 0]

UnchangedInputs ==
    UNCHANGED <<text, apply_enhancement, confidence_threshold, taggerOut,
                patternMatches, dictMatches, morphMatches, boosterHits,
                candidates, output, output2, config, kwargs,
                original_threshold, stats, response, caller, raising, threads, enhancedVars>>

PredictEmpty ==
    /\ pc = "predict"
    /\ IsBlank(text)
    /\ result' = EmptyPredictResult(text)
    /\ pc' = "done"
    /\ UNCHANGED <<entities, taggerCalls>>
    /\ UnchangedInputs

EnsemblePredict ==
    /\ pc = "predict"
    /\ ~IsBlank(text)
    /\ entities' = OptimizedEnsemblePredict(taggerOut, confidence_threshold,
                                          raising)
    /\ taggerCalls' = taggerCalls + Len(Pipelines)
    /\ pc' = IF apply_enhancement THEN "patterns" ELSE "filter"
    /\ UNCHANGED result
    /\ UnchangedInputs

AllPatterns ==
    /\ pc = "patterns"
    /\ entities' = ApplyAllPatterns(text, entities, patternMatches, raising)
    /\ pc' = "dictionary"
    /\ UNCHANGED <<result, taggerCalls>>
    /\ UnchangedInputs

UltraDictionary ==
    /\ pc = "dictionary"
    /\ entities' = ApplyUltraDictionary(text, entities, dictMatches)
    /\ pc' = "morphological"
    /\ UNCHANGED <<result, taggerCalls>>
    /\ UnchangedInputs

MorphologicalAnalysis ==
    /\ pc = "morphological"
    /\ entities' = ApplyMorphologicalAnalysis(text, entities, morphMatches)
    /\ pc' = "boosting"
    /\ UNCHANGED <<result, taggerCalls>>
    /\ UnchangedInputs

ContextualBoosting ==
    /\ pc = "boosting"
    /\ entities' = ApplyContextualBoosting(entities, boosterHits)
    /\ pc' = "merging"
    /\ UNCHANGED <<result, taggerCalls>>
    /\ UnchangedInputs

EntityMerging ==
    /\ pc = "merging"
    /\ entities' = IntelligentEntityMerging(entities)
    /\ pc' = "filter"
    /\ UNCHANGED <<result, taggerCalls>>
    /\ UnchangedInputs

QualityFilter ==
    /\ pc = "filter"
    /\ entities' = FinalQualityFilter(entities, confidence_threshold)
    /\ pc' = "sort"
    /\ UNCHANGED <<result, taggerCalls>>
    /\ UnchangedInputs

\* Variant of SortAndReturn: the entities are returned as the filter left
\* them
SortAndReturnUnsorted ==
    /\ pc = "sort"
    /\ entities' = entities
    /\ result' = PredictResult(text, entities', confidence_threshold,
                               apply_enhancement)
    /\ pc' = "done"
    /\ UNCHANGED taggerCalls
    /\ UnchangedInputs

SortAndReturn ==
    /\ pc = "sort"
    /\ entities' = SortByStart(entities)
    /\ result' = PredictResult(text, entities', confidence_threshold,
                               apply_enhancement)
    /\ pc' = "done"
    /\ UNCHANGED taggerCalls
    /\ UnchangedInputs

----------------------------------------------------------------------------
(* Inputs of a predict call                                                *)

Texts == {<<>>, <<" ", " ">>, <<"a", " ", "b">>}
Scores == {-5, 50, 120}
Thresholds == {-10, 20, 60}
ActiveSets == {{"simple", "max", "average", "first"}, {"first"}}
BoosterHitSets == {{}, {"paziente", "medico", "prescritto", "grave"}}

\* Position i (0-based, between characters) is a \b word boundary of t
IsBoundary(t, i) ==
    LET before == i >= 1 /\ IsWordChar(t[i])
        after == i < Len(t) /\ IsWordChar(t[i + 1])
    IN before # after

\* Spans a tagger reports: they begin and end on non-blank characters
TaggerSpans(t) ==
    {sp \in (0..Len(t)) \X (0..Len(t)) :
        /\ sp[1] < sp[2]
        /\ ~IsSpace(t[sp[1] + 1])
        /\ ~IsSpace(t[sp[2]])}

TaggerResults(t) ==
    {[word |-> Slice(t, sp[1], sp[2]), entity_group |-> "PROBLEM",
      start |-> sp[1], end |-> sp[2], score |-> sc] :
        sp \in TaggerSpans(t), sc \in Scores}

\* Spans a \b...\b pattern matches: from the start of a word to a boundary
PatternSpans(t) ==
    {sp \in (0..Len(t)) \X (0..Len(t)) :
        /\ sp[1] < sp[2]
        /\ IsBoundary(t, sp[1]) /\ IsWordChar(t[sp[1] + 1])
        /\ IsBoundary(t, sp[2])}

\* The \b\w+\b tokens of t
WordSpans(t) ==
    {sp \in PatternSpans(t) :
        \A i \in (sp[1] + 1)..sp[2] : IsWordChar(t[i])}

\* The edge-case patterns match two words or more
PatternMatchSet(t) ==
    {[start |-> sp[1], end |-> sp[2], pattern_type |-> "PROBLEM_comprehensive"] :
        sp \in PatternSpans(t)}
    \cup
    {[start |-> sp[1], end |-> sp[2], pattern_type |-> "TEST_edge"] :
        sp \in PatternSpans(t) \ WordSpans(t)}

DictMatchSet(t) ==
    {[start |-> sp[1], end |-> sp[2], entity_type |-> "TREATMENT"] :
        sp \in WordSpans(t)}

MorphMatchSet(t) ==
    {[start |-> sp[1], end |-> sp[2], family |-> "esame_family"] :
        sp \in WordSpans(t)}

\* all_patterns = {**comprehensive_patterns, **edge_case_patterns}: the
\* comprehensive patterns are searched before the edge-case patterns
ComprehensiveFirst(pm) ==
    \A i, j \in 1..Len(pm) :
        (i < j /\ IsComprehensive(pm[j].pattern_type))
            => IsComprehensive(pm[i].pattern_type)

\* What the tagger and the searches return for the text: at most nTagger
\* results of the tagger, reported by every pipeline of a set or by none, and
\* at most nMatches matches of the searches
ExternalResultsFrom(results, nTagger, nMatches) ==
    /\ \E base \in SeqsUpTo(results, nTagger), active \in ActiveSets :
          taggerOut = [p \in {"simple", "max", "average", "first"} |->
                          IF p \in active THEN base ELSE <<>>]
    /\ patternMatches \in SeqsUpTo(PatternMatchSet(text), nMatches)
    /\ ComprehensiveFirst(patternMatches)
    /\ dictMatches \in SeqsUpTo(DictMatchSet(text), nMatches - Len(patternMatches))
    /\ morphMatches \in SeqsUpTo(MorphMatchSet(text),
                           nMatches - Len(patternMatches) - Len(dictMatches))
    /\ boosterHits \in BoosterHitSets

\* The tagger reports well-formed spans of the text
ExternalResults(nTagger, nMatches) ==
    ExternalResultsFrom(TaggerResults(text), nTagger, nMatches)

InitInputs ==
    /\ text \in Texts
    /\ apply_enhancement \in BOOLEAN
    /\ confidence_threshold \in Thresholds
    /\ ExternalResults(MaxTagger, MaxMatches)
    \* the searches are not run without enhancement
    /\ ~apply_enhancement =>
          /\ patternMatches = <<>> /\ dictMatches = <<>> /\ morphMatches = <<>>
          /\ boosterHits = {}
    \* every pipeline and every pattern search returns
    /\ raising = {}

\* The variables of the direct merge and filter calls when none is made
NoUnitCall ==
    /\ candidates = <<>>
    /\ output = <<>>
    /\ output2 = <<>>

\* PipelineConfig() defaults that the model keeps
DefaultConfig ==
    [confidence_threshold |-> 20,
     enable_contextual_boosting |-> TRUE,
     enable_morphological_analysis |-> TRUE,
     enable_pattern_matching |-> TRUE,
     enable_dictionary_lookup |-> TRUE,
     max_text_length |-> 10000]

NoKwargs == [has_confidence_threshold |-> FALSE, confidence_threshold |-> 0,
             apply_enhancement |-> TRUE]

NoStats == [total_predictions |-> 0, total_entities |-> 0]

\* No concurrent call of the integrated predict is in progress
NoThreads == <<>>

\* No helper of EnhancedItalianMedicalNER is being called
NoEnhancedCall ==
    /\ tokens = <<>>
    /\ predictions = <<>>
    /\ confidence_scores = <<>>
    /\ processed = <<>>
    /\ loop_i = 0

\* The variables of the integrated pipeline when the model is called directly
NoIntegration ==
    /\ config = DefaultConfig
    /\ kwargs = NoKwargs
    /\ original_threshold = 0
    /\ stats = NoStats
    /\ response = [returned |-> FALSE]
    /\ caller = "direct"
    /\ threads = NoThreads

Init ==
    /\ InitInputs
    /\ pc = "predict"
    /\ entities = <<>>
    /\ taggerCalls = 0
    /\ result = [returned |-> FALSE]
    /\ NoUnitCall
    /\ NoIntegration
    /\ NoEnhancedCall

Next ==
    \/ PredictEmpty
    \/ EnsemblePredict
    \/ AllPatterns
    \/ UltraDictionary
    \/ MorphologicalAnalysis
    \/ ContextualBoosting
    \/ EntityMerging
    \/ QualityFilter
    \/ SortAndReturn

Spec == Init /\ [][Next]_vars

----------------------------------------------------------------------------
(* Direct calls of _intelligent_entity_merging (SpecMerge)                 *)

\* The variables of predict when a merge or a filter is called directly
NoPredictCall ==
    /\ text = <<>>
    /\ apply_enhancement = TRUE
    /\ taggerOut = [p \in {"simple", "max", "average", "first"} |-> <<>>]
    /\ patternMatches = <<>>
    /\ dictMatches = <<>>
    /\ morphMatches = <<>>
    /\ boosterHits = {}
    /\ raising = {}
    /\ taggerCalls = 0
    /\ result = [returned |-> FALSE]

\* The candidates are spans of a text of MaxPos letters
BaseText == [i \in 1..MaxPos |-> "a"]

MergeSources == {"model_simple", "pattern_matching"}
MergeConfidences == {60, 85}

MergeCandidateSet ==
    {[text |-> Slice(BaseText, sp[1], sp[2]),
      label |-> IF src = "model_simple" THEN "PROBLEM" ELSE "TEST",
      start |-> sp[1], end |-> sp[2],
      confidence |-> c, source |-> src, contextual_boost |-> 0] :
        sp \in {x \in (0..MaxPos) \X (0..MaxPos) : x[1] < x[2]},
        c \in MergeConfidences, src \in MergeSources}

InitMerge ==
    /\ candidates \in SeqsUpTo(MergeCandidateSet, MaxCands)
    /\ entities = candidates
    /\ pc = "call_merge"
    /\ output = <<>>
    /\ output2 = <<>>
    /\ confidence_threshold = 20
    /\ NoPredictCall
    /\ NoIntegration
    /\ NoEnhancedCall

\* merged = _intelligent_entity_merging(entities); the list passed is sorted
\* in place
MergeCandidates ==
    /\ pc = "call_merge"
    /\ output' = IntelligentEntityMerging(entities)
    /\ entities' = SortByStart(entities)
    /\ pc' = "merged"
    /\ UNCHANGED <<text, apply_enhancement, confidence_threshold, taggerOut,
                   patternMatches, dictMatches, morphMatches, boosterHits,
                   taggerCalls, result, candidates, output2, config, kwargs,
                   original_threshold, stats, response, caller, raising, threads, enhancedVars>>

\* _intelligent_entity_merging(merged)
MergeAgain ==
    /\ pc = "merged"
    /\ output2' = IntelligentEntityMerging(output)
    /\ output' = SortByStart(output)
    /\ pc' = "merged_again"
    /\ UNCHANGED <<text, apply_enhancement, confidence_threshold, taggerOut,
                   patternMatches, dictMatches, morphMatches, boosterHits,
                   entities, taggerCalls, result, candidates, config, kwargs,
                   original_threshold, stats, response, caller, raising, threads, enhancedVars>>

NextMerge == MergeCandidates \/ MergeAgain

SpecMerge == InitMerge /\ [][NextMerge]_vars

Merged == pc \in {"merged", "merged_again"}

WellFormed(ents) ==
    \A i \in 1..Len(ents) : 0 <= ents[i].start /\ ents[i].start < ents[i].end

SortedByStart(ents) ==
    \A i \in 1..(Len(ents) - 1) : ents[i].start <= ents[i + 1].start

\* C2: for well-formed candidates in any input order, no two entities of the
\* list returned by _intelligent_entity_merging overlap.
C2_MergeNoOverlap ==
    (Merged /\ WellFormed(candidates)) => NoOverlaps(output)

\* Three candidates that are not in start order, two of them overlapping,
\* were merged into two entities.
C2_Witness ==
    /\ pc = "merged"
    /\ Len(candidates) = 3
    /\ ~SortedByStart(candidates)
    /\ ~NoOverlaps(candidates)
    /\ Len(output) = 2

\* C7: merging the output of a merge again returns a list structurally equal
\* to that output.
C7_MergeIdempotent ==
    pc = "merged_again" =>
        /\ output2 = output
        /\ output = IntelligentEntityMerging(candidates)

\* The second merge ran on an output in which overlapping candidates had
\* been fused and another entity kept apart.
C7_Witness ==
    /\ pc = "merged_again"
    /\ Len(candidates) = 3
    /\ Len(output) = 2
    /\ output2 = output

IsModelCandidate(e) ==
    e.source \in {"model_simple", "model_max", "model_average", "model_first"}

\* candidates[m] is a tagger candidate of confidence 0.6 and candidates[p] a
\* pattern candidate of confidence 0.85 whose span contains it
ModelInsidePattern(m, p) ==
    /\ IsModelCandidate(candidates[m]) /\ candidates[m].confidence = 60
    /\ candidates[p].source = "pattern_matching" /\ candidates[p].confidence = 85
    /\ candidates[p].start <= candidates[m].start
    /\ candidates[m].end <= candidates[p].end

\* C9: a tagger candidate of confidence 0.6 and a pattern candidate of
\* confidence 0.85 that contains it merge into exactly one entity with the
\* start and end of the pattern candidate, whichever comes first.
C9_ModelPatternScenario ==
    (Merged /\ Len(candidates) = 2) =>
        \A m, p \in 1..2 :
            ModelInsidePattern(m, p) =>
                /\ Len(output) = 1
                /\ output[1].start = candidates[p].start
                /\ output[1].end = candidates[p].end

\* The tagger candidate came first, with the same start as the wider pattern
\* candidate, and one entity with the pattern's span was returned.
C9_Witness ==
    /\ pc = "merged"
    /\ Len(candidates) = 2
    /\ ModelInsidePattern(1, 2)
    /\ candidates[1].end < candidates[2].end
    /\ Len(output) = 1
    /\ output[1].end = candidates[2].end

----------------------------------------------------------------------------
(* Properties of FinalOptimizedItalianMedicalNER.predict (Spec)            *)

Returned == pc = "done"

ResultEntities == result.entities

\* Some tagger result of the call satisfies P
SomeTaggerScore(P(_)) ==
    \E i \in 1..Len(Pipelines) :
        \E k \in 1..Len(taggerOut[Pipelines[i]]) :
            P(taggerOut[Pipelines[i]][k].score)

\* C1: no two distinct entities of the list returned by predict overlap, for
\* every non-empty text, tagger output and both values of apply_enhancement.
C1_PredictNoOverlap ==
    Returned => NoOverlaps(ResultEntities)

\* C3: every entity returned by predict has a confidence between 0.0 and
\* 1.0, whatever the raw scores and the threshold, and the returned
\* confidence_range_valid flag is True.
C3_ConfidenceBounds ==
    Returned =>
        /\ \A i \in 1..Len(ResultEntities) :
              /\ 0 <= ResultEntities[i].confidence
              /\ ResultEntities[i].confidence <= 100
        /\ "confidence_range_valid" \in DOMAIN result
              => result.confidence_range_valid

IsNegative(score) == score < 0

\* A raw score below 0 passed a negative threshold and its entity was
\* returned with the confidence clamped to 0.
C3_Witness ==
    /\ Returned
    /\ confidence_threshold < 0
    /\ SomeTaggerScore(IsNegative)
    /\ \E i \in 1..Len(ResultEntities) : ResultEntities[i].confidence = 0

\* C5: with apply_enhancement=True the text of every returned entity is the
\* slice text[start:end], also after a merge extended the span to the union
\* of two overlapping candidates.
C5_SpanTextConsistency ==
    (Returned /\ apply_enhancement) =>
        \A i \in 1..Len(ResultEntities) :
            ResultEntities[i].text =
                Slice(text, ResultEntities[i].start, ResultEntities[i].end)

\* C6: for the same text and tagger output, predict (apply_enhancement=True)
\* run with a threshold t2 above the threshold of the call returns no more
\* entities than the call.
C6_ThresholdMonotone ==
    (Returned /\ apply_enhancement /\ ~IsBlank(text)) =>
        \A t2 \in Thresholds :
            t2 >= confidence_threshold =>
                Len(PredictEntities(text, taggerOut, patternMatches,
                                    dictMatches, morphMatches, boosterHits,
                                    t2, TRUE, raising))
                    <= Len(ResultEntities)

----------------------------------------------------------------------------
(* Direct calls of _final_quality_filter (SpecFilter)                      *)

FilterChars == {"a", "1", " ", "_", "."}
FilterConfidences == {-5, 50, 79, 80, 100, 120}
FilterThresholds == Thresholds \cup {100}

FilterEntitySet ==
    {[text |-> t, label |-> "TEST", start |-> 0, end |-> Len(t),
      confidence |-> c, source |-> "model_simple", contextual_boost |-> 0] :
        t \in SeqsUpTo(FilterChars, MaxFilterTextLen), c \in FilterConfidences}

\* The entity dicts after the call: the filter writes the clamped confidence
\* and the stripped text into the dicts it was given
FilterInPlace(ents, thr) ==
    [i \in 1..Len(ents) |->
        LET entity == ents[i]
            stripped == Strip(entity.text)
            clamped == Max(0, Min(95, entity.confidence))
        IN IF Len(stripped) < 2 /\ entity.confidence < 80 THEN entity
           ELSE IF PunctOrNumberOnly(stripped) THEN entity
           ELSE IF clamped >= thr
                THEN [entity EXCEPT !.confidence = clamped, !.text = stripped]
                ELSE [entity EXCEPT !.confidence = clamped]]

InitFilter ==
    /\ candidates \in SeqsUpTo(FilterEntitySet, MaxFilterEnts)
    /\ entities = candidates
    /\ confidence_threshold \in FilterThresholds
    /\ pc = "call_filter"
    /\ output = <<>>
    /\ output2 = <<>>
    /\ NoPredictCall
    /\ NoIntegration
    /\ NoEnhancedCall

\* filtered = _final_quality_filter(entities)
FilterEntities ==
    /\ pc = "call_filter"
    /\ output' = FinalQualityFilter(entities, confidence_threshold)
    /\ entities' = FilterInPlace(entities, confidence_threshold)
    /\ pc' = "filtered"
    /\ UNCHANGED <<text, apply_enhancement, confidence_threshold, taggerOut,
                   patternMatches, dictMatches, morphMatches, boosterHits,
                   taggerCalls, result, candidates, output2, config, kwargs,
                   original_threshold, stats, response, caller, raising, threads, enhancedVars>>

NextFilter == FilterEntities

SpecFilter == InitFilter /\ [][NextFilter]_vars

IsPunctuation(c) == c \in {".", "_"}

\* The string consists only of punctuation, digits and whitespace
OnlyPunctDigitsSpace(s) ==
    \A i \in 1..Len(s) : IsPunctuation(s[i]) \/ IsDigit(s[i]) \/ IsSpace(s[i])

\* C10: _final_quality_filter drops every entity whose trimmed text consists
\* only of punctuation, digits and whitespace, whatever its confidence and
\* the threshold.
C10_PunctDigitsDropped ==
    pc = "filtered" =>
        \A i \in 1..Len(output) : ~OnlyPunctDigitsSpace(output[i].text)

----------------------------------------------------------------------------
(* HybridOptimizedItalianMedicalNER                                        *)

\* self.contextual_boosters of the hybrid model, in iteration order
hybrid_contextual_boosters ==
    << <<"paziente", 10>>, <<"medico", 8>>, <<"ospedale", 8>>, <<"clinica", 8>>,
       <<"dottore", 6>>, <<"specialista", 6>>, <<"ambulatorio", 6>>,
       <<"prescritto", 12>>, <<"somministrato", 12>>, <<"assunto", 10>>,
       <<"terapia", 8>>, <<"efficace", 8>>, <<"miglioramento", 8>>,
       <<"risultati", 10>>, <<"mostra", 8>>, <<"rivela", 8>>, <<"conferma", 8>>,
       <<"presenza", 6>>, <<"segni", 6>>,
       <<"presenta", 8>>, <<"lamenta", 8>>, <<"soffre", 8>>,
       <<"persistente", 6>>, <<"grave", 6>>, <<"severo", 6>> >>

\* _hybrid_ensemble_predict: the raw score is the confidence
RECURSIVE HybridPipelineEntities(_, _, _)
HybridPipelineEntities(results, p, thr) ==
    IF results = <<>> THEN <<>>
    ELSE LET r == Head(results)
             rest == HybridPipelineEntities(Tail(results), p, thr)
         IN IF r.score >= thr
            THEN <<[text |-> r.word, label |-> r.entity_group,
                    start |-> r.start, end |-> r.end,
                    confidence |-> r.score,
                    source |-> ModelSource(p),
                    contextual_boost |-> 0]>> \o rest
            ELSE rest

RECURSIVE HybridEnsembleFrom(_, _, _)
HybridEnsembleFrom(i, out, thr) ==
    IF i > Len(Pipelines) THEN <<>>
    ELSE HybridPipelineEntities(out[Pipelines[i]], Pipelines[i], thr)
         \o HybridEnsembleFrom(i + 1, out, thr)

HybridEnsemblePredict(out, thr) == HybridEnsembleFrom(1, out, thr)

\* _has_significant_overlap of the hybrid model: more than 60% of either span
HybridHasSignificantOverlap(new_span, existing_spans) ==
    LET new_length == new_span[2] - new_span[1]
    IN \E ex \in existing_spans :
          LET overlap_start == Max(new_span[1], ex[1])
              overlap_end == Min(new_span[2], ex[2])
              overlap_length == overlap_end - overlap_start
              existing_length == ex[2] - ex[1]
          IN /\ overlap_start < overlap_end
             /\ \/ (new_length > 0 /\ 5 * overlap_length > 3 * new_length)
                \/ (existing_length > 0
                    /\ 5 * overlap_length > 3 * existing_length)

\* _apply_comprehensive_patterns
RECURSIVE HybridPatternLoop(_, _, _, _)
HybridPatternLoop(t, ms, enhanced, found) ==
    IF ms = <<>> THEN enhanced
    ELSE LET m == Head(ms)
             span == <<m.start, m.end>>
         IN IF ~HybridHasSignificantOverlap(span, found)
            THEN HybridPatternLoop(t, Tail(ms),
                     Append(enhanced,
                        [text |-> Strip(Slice(t, m.start, m.end)),
                         label |-> EntityLabel(m.pattern_type),
                         start |-> m.start, end |-> m.end,
                         confidence |-> 85,
                         source |-> "comprehensive_pattern",
                         contextual_boost |-> 0]),
                     found \cup {span})
            ELSE HybridPatternLoop(t, Tail(ms), enhanced, found)

HybridApplyComprehensivePatterns(t, existing, ms) ==
    HybridPatternLoop(t, ms, existing, SpansOf(existing))

\* _apply_ultra_dictionary and _apply_morphological_analysis of the hybrid
\* model: the loops of the final model with the hybrid source names
HybridSource(e) ==
    CASE e.source = "dictionary_lookup"      -> "ultra_dictionary"
      [] e.source = "morphological_analysis" -> "morphological"
      [] OTHER                               -> e.source

HybridApplyUltraDictionary(t, existing, ms) ==
    LET enhanced == DictionaryLoop(t, ms, existing, SpansOf(existing))
    IN [i \in 1..Len(enhanced) |->
           IF i <= Len(existing) THEN enhanced[i]
           ELSE [enhanced[i] EXCEPT !.source = HybridSource(enhanced[i])]]

HybridApplyMorphologicalAnalysis(t, existing, ms) ==
    LET enhanced == MorphLoop(t, ms, existing, SpansOf(existing))
    IN [i \in 1..Len(enhanced) |->
           IF i <= Len(existing) THEN enhanced[i]
           ELSE [enhanced[i] EXCEPT !.source = HybridSource(enhanced[i])]]

\* _apply_contextual_boosting of the hybrid model: every term found counts
RECURSIVE HybridBoostFrom(_, _)
HybridBoostFrom(i, hits) ==
    IF i > Len(hybrid_contextual_boosters) THEN 0
    ELSE (IF hybrid_contextual_boosters[i][1] \in hits
          THEN hybrid_contextual_boosters[i][2] ELSE 0)
         + HybridBoostFrom(i + 1, hits)

HybridApplyContextualBoosting(ents, hits) ==
    LET boost == HybridBoostFrom(1, hits)
    IN [i \in 1..Len(ents) |->
           [ents[i] EXCEPT !.confidence = Min(95, ents[i].confidence + boost),
                           !.contextual_boost = boost]]

HybridSourceBonus(source) ==
    CASE source = "model_simple"          -> 15
      [] source = "model_max"             -> 15
      [] source = "model_average"         -> 12
      [] source = "comprehensive_pattern" -> 12
      [] source = "ultra_dictionary"      -> 8
      [] source = "morphological"         -> 6
      [] OTHER                            -> 0

\* calculate_score of _resolve_conflict: len(text) / 50 is 2 hundredths a
\* character
HybridCalculateScore(e) ==
    e.confidence + HybridSourceBonus(e.source) + Min(5, 2 * Len(e.text))
        + e.contextual_boost

HybridResolveConflict(entity1, entity2) ==
    LET score1 == HybridCalculateScore(entity1)
        score2 == HybridCalculateScore(entity2)
        winner == IF score1 >= score2 THEN entity1 ELSE entity2
    IN [winner EXCEPT !.start = Min(entity1.start, entity2.start),
                      !.end = Max(entity1.end, entity2.end),
                      !.confidence = Max(score1, score2)]

RECURSIVE HybridMergeLoop(_, _, _)
HybridMergeLoop(current_entity, rest, merged) ==
    IF rest = <<>> THEN Append(merged, current_entity)
    ELSE LET next_entity == Head(rest)
         IN IF /\ current_entity.end > next_entity.start
               /\ current_entity.start < next_entity.end
            THEN HybridMergeLoop(HybridResolveConflict(current_entity, next_entity),
                                 Tail(rest), merged)
            ELSE HybridMergeLoop(next_entity, Tail(rest),
                                 Append(merged, current_entity))

HybridIntelligentEntityMerging(ents) ==
    IF ents = <<>> THEN ents
    ELSE LET sorted == SortByStart(ents)
         IN HybridMergeLoop(Head(sorted), Tail(sorted), <<>>)

\* _final_quality_filter of the hybrid model: no clamping
RECURSIVE HybridFinalQualityFilter(_, _)
HybridFinalQualityFilter(ents, thr) ==
    IF ents = <<>> THEN <<>>
    ELSE LET entity == Head(ents)
             rest == HybridFinalQualityFilter(Tail(ents), thr)
             stripped == Strip(entity.text)
         IN IF Len(stripped) < 2 /\ entity.confidence < 80 THEN rest
            ELSE IF PunctOrNumberOnly(stripped) THEN rest
            ELSE IF entity.confidence >= thr /\ stripped # <<>>
                 THEN <<[entity EXCEPT !.text = stripped]>> \o rest
                 ELSE rest

\* The dict returned by the hybrid predict for a non-blank text
HybridPredictResult(t, ents, thr, enh) ==
    [text |-> t,
     entities |-> ents,
     total_entities |-> Len(ents),
     confidence_threshold |-> thr,
     enhancement_applied |-> enh]

HybridPredictEmpty ==
    /\ pc = "h_predict"
    /\ IsBlank(text)
    /\ result' = EmptyPredictResult(text)
    /\ pc' = "h_done"
    /\ UNCHANGED <<entities, taggerCalls>>
    /\ UnchangedInputs

HybridEnsemble ==
    /\ pc = "h_predict"
    /\ ~IsBlank(text)
    /\ entities' = HybridEnsemblePredict(taggerOut, confidence_threshold)
    /\ taggerCalls' = taggerCalls + Len(Pipelines)
    /\ pc' = IF apply_enhancement THEN "h_patterns" ELSE "h_filter"
    /\ UNCHANGED result
    /\ UnchangedInputs

HybridPatterns ==
    /\ pc = "h_patterns"
    /\ entities' = HybridApplyComprehensivePatterns(text, entities, patternMatches)
    /\ pc' = "h_dictionary"
    /\ UNCHANGED <<result, taggerCalls>>
    /\ UnchangedInputs

HybridDictionary ==
    /\ pc = "h_dictionary"
    /\ entities' = HybridApplyUltraDictionary(text, entities, dictMatches)
    /\ pc' = "h_morphological"
    /\ UNCHANGED <<result, taggerCalls>>
    /\ UnchangedInputs

HybridMorphological ==
    /\ pc = "h_morphological"
    /\ entities' = HybridApplyMorphologicalAnalysis(text, entities, morphMatches)
    /\ pc' = "h_boosting"
    /\ UNCHANGED <<result, taggerCalls>>
    /\ UnchangedInputs

HybridBoosting ==
    /\ pc = "h_boosting"
    /\ entities' = HybridApplyContextualBoosting(entities, boosterHits)
    /\ pc' = "h_merging"
    /\ UNCHANGED <<result, taggerCalls>>
    /\ UnchangedInputs

HybridMerging ==
    /\ pc = "h_merging"
    /\ entities' = HybridIntelligentEntityMerging(entities)
    /\ pc' = "h_filter"
    /\ UNCHANGED <<result, taggerCalls>>
    /\ UnchangedInputs

HybridFilter ==
    /\ pc = "h_filter"
    /\ entities' = HybridFinalQualityFilter(entities, confidence_threshold)
    /\ pc' = "h_sort"
    /\ UNCHANGED <<result, taggerCalls>>
    /\ UnchangedInputs

HybridSortAndReturn ==
    /\ pc = "h_sort"
    /\ entities' = SortByStart(entities)
    /\ result' = HybridPredictResult(text, entities', confidence_threshold,
                                     apply_enhancement)
    /\ pc' = "h_done"
    /\ UNCHANGED taggerCalls
    /\ UnchangedInputs

\* The hybrid model has no edge-case patterns
InitHybrid ==
    /\ InitInputs
    /\ \A i \in 1..Len(patternMatches) :
          IsComprehensive(patternMatches[i].pattern_type)
    /\ pc = "h_predict"
    /\ entities = <<>>
    /\ taggerCalls = 0
    /\ result = [returned |-> FALSE]
    /\ NoUnitCall
    /\ NoIntegration
    /\ NoEnhancedCall

NextHybrid ==
    \/ HybridPredictEmpty
    \/ HybridEnsemble
    \/ HybridPatterns
    \/ HybridDictionary
    \/ HybridMorphological
    \/ HybridBoosting
    \/ HybridMerging
    \/ HybridFilter
    \/ HybridSortAndReturn

SpecHybrid == InitHybrid /\ [][NextHybrid]_vars

InUnitRange(score) == 0 <= score /\ score <= 100

\* C4: with raw scores in [0,1] and apply_enhancement=True every entity of
\* the result of the hybrid predict has a confidence between 0.0 and 1.0,
\* also the entities _resolve_conflict made from overlapping candidates.
C4_HybridConfidenceBounds ==
    (pc = "h_done" /\ apply_enhancement /\ ~SomeTaggerScore(LAMBDA sc : ~InUnitRange(sc)))
        => \A i \in 1..Len(ResultEntities) :
              InUnitRange(ResultEntities[i].confidence)

----------------------------------------------------------------------------
(* IntegratedItalianMedicalNER.predict around the optimized model          *)

\* _format_api_response: the fields of an entity that are passed on
FormatEntity(e, include_source) ==
    IF include_source
    THEN [text |-> e.text, label |-> e.label, start |-> e.start, end |-> e.end,
          confidence |-> e.confidence, source |-> e.source,
          contextual_boost |-> e.contextual_boost]
    ELSE [text |-> e.text, label |-> e.label, start |-> e.start, end |-> e.end,
          confidence |-> e.confidence, contextual_boost |-> e.contextual_boost]

FormatApiResponse(res, original_text, include_source) ==
    LET formatted == [i \in 1..Len(res.entities) |->
                         FormatEntity(res.entities[i], include_source)]
    IN [success |-> TRUE,
        text |-> original_text,
        entities |-> formatted,
        total_entities |-> Len(formatted),
        confidence_threshold |-> res.confidence_threshold,
        enhancement_applied |-> res.enhancement_applied,
        confidence_range_valid |-> res.confidence_range_valid]

\* _empty_result
EmptyResult(t) ==
    [success |-> TRUE, text |-> t, entities |-> <<>>, total_entities |-> 0]

\* _update_performance_stats
UpdatePerformanceStats(st, entity_count) ==
    [total_predictions |-> st.total_predictions + 1,
     total_entities |-> st.total_entities + entity_count]

IntegratedEmpty ==
    /\ pc = "i_predict"
    /\ IsBlank(text)
    /\ response' = EmptyResult(text)
    /\ pc' = "i_done"
    /\ UNCHANGED <<text, apply_enhancement, confidence_threshold, taggerOut,
                   patternMatches, dictMatches, morphMatches, boosterHits,
                   entities, taggerCalls, result, candidates, output, output2,
                   config, kwargs, original_threshold, stats, caller, raising, threads, enhancedVars>>

IntegratedTooLong ==
    /\ pc = "i_predict"
    /\ ~IsBlank(text)
    /\ Len(text) > config.max_text_length
    /\ response' = [raised |-> "ValueError"]
    /\ pc' = "i_done"
    /\ UNCHANGED <<text, apply_enhancement, confidence_threshold, taggerOut,
                   patternMatches, dictMatches, morphMatches, boosterHits,
                   entities, taggerCalls, result, candidates, output, output2,
                   config, kwargs, original_threshold, stats, caller, raising, threads, enhancedVars>>

\* Lines 141-156: the threshold of the call replaces the model's threshold
\* and the model's predict is entered
IntegratedCallModel ==
    /\ pc = "i_predict"
    /\ ~IsBlank(text)
    /\ Len(text) <= config.max_text_length
    /\ original_threshold' = confidence_threshold
    /\ confidence_threshold' = IF kwargs.has_confidence_threshold
                               THEN kwargs.confidence_threshold
                               ELSE config.confidence_threshold
    /\ apply_enhancement' = kwargs.apply_enhancement
    /\ pc' = "predict"
    /\ UNCHANGED <<text, taggerOut, patternMatches, dictMatches, morphMatches,
                   boosterHits, entities, taggerCalls, result, candidates,
                   output, output2, config, kwargs, stats, response, caller, raising, threads, enhancedVars>>

\* Lines 161-171: the result of the model is formatted and counted
IntegratedFormat ==
    /\ pc = "done"
    /\ caller = "integrated"
    /\ response' = FormatApiResponse(result, text, TRUE)
    /\ stats' = UpdatePerformanceStats(stats, Len(result.entities))
    /\ pc' = "i_finally"
    /\ UNCHANGED <<text, apply_enhancement, confidence_threshold, taggerOut,
                   patternMatches, dictMatches, morphMatches, boosterHits,
                   entities, taggerCalls, result, candidates, output, output2,
                   config, kwargs, original_threshold, caller, raising, threads, enhancedVars>>

\* Lines 173-175: an exception raised inside the try block (for instance by
\* the strip of a tagger word that is None) is re-raised as RuntimeError
IntegratedPredictionFailed ==
    /\ caller = "integrated"
    /\ pc \in {"predict", "patterns", "dictionary", "morphological",
               "boosting", "merging", "filter", "sort", "done"}
    /\ response' = [raised |-> "RuntimeError"]
    /\ pc' = "i_finally"
    /\ UNCHANGED <<text, apply_enhancement, confidence_threshold, taggerOut,
                   patternMatches, dictMatches, morphMatches, boosterHits,
                   entities, taggerCalls, result, candidates, output, output2,
                   config, kwargs, original_threshold, stats, caller, raising,
                   threads, enhancedVars>>

\* Variant of IntegratedRestore: the finally clause does not restore
IntegratedRestoreSkipped ==
    /\ pc = "i_finally"
    /\ pc' = "i_done"
    /\ UNCHANGED <<text, apply_enhancement, confidence_threshold, taggerOut,
                   patternMatches, dictMatches, morphMatches, boosterHits,
                   entities, taggerCalls, result, candidates, output, output2,
                   config, kwargs, original_threshold, stats, response, caller,
                   raising, threads, enhancedVars>>

\* The finally clause: the model's threshold is restored
IntegratedRestore ==
    /\ pc = "i_finally"
    /\ confidence_threshold' = original_threshold
    /\ pc' = "i_done"
    /\ UNCHANGED <<text, apply_enhancement, taggerOut, patternMatches,
                   dictMatches, morphMatches, boosterHits, entities,
                   taggerCalls, result, candidates, output, output2, config,
                   kwargs, original_threshold, stats, response, caller, raising, threads, enhancedVars>>

IntegratedTexts == Texts \cup {<<" ", " ", " ">>}
IntegratedFailingSets == {{}, {"simple"}}
MaxTextLengths == {2, 10000}

\* Either the model's predict is called directly, or the predict of an
\* integrated pipeline whose model was built with the config's threshold
InitIntegrated ==
    /\ text \in IntegratedTexts
    /\ caller \in {"direct", "integrated"}
    /\ confidence_threshold \in Thresholds
    /\ apply_enhancement \in BOOLEAN
    /\ ExternalResults(1, 1)
    /\ ~apply_enhancement =>
          /\ patternMatches = <<>> /\ dictMatches = <<>> /\ morphMatches = <<>>
          /\ boosterHits = {}
    /\ IF caller = "direct"
       THEN /\ config = DefaultConfig
            /\ kwargs = NoKwargs
            /\ pc = "predict"
       ELSE /\ config \in [confidence_threshold : {confidence_threshold},
                           enable_contextual_boosting : {TRUE},
                           enable_morphological_analysis : {TRUE},
                           enable_pattern_matching : {TRUE},
                           enable_dictionary_lookup : {TRUE},
                           max_text_length : MaxTextLengths]
            /\ kwargs \in [has_confidence_threshold : BOOLEAN,
                           confidence_threshold : Thresholds,
                           apply_enhancement : {apply_enhancement}]
            /\ ~kwargs.has_confidence_threshold => kwargs.confidence_threshold = 20
            /\ pc = "i_predict"
    /\ original_threshold = 0
    /\ stats = NoStats
    /\ response = [returned |-> FALSE]
    /\ NoEnhancedCall
    /\ raising \in IntegratedFailingSets
    /\ threads = NoThreads
    /\ entities = <<>>
    /\ taggerCalls = 0
    /\ result = [returned |-> FALSE]
    /\ NoUnitCall

NextIntegrated ==
    \/ Next
    \/ IntegratedEmpty
    \/ IntegratedTooLong
    \/ IntegratedCallModel
    \/ IntegratedFormat
    \/ IntegratedPredictionFailed
    \/ IntegratedRestore

SpecIntegrated == InitIntegrated /\ [][NextIntegrated]_vars

\* The text is empty or consists only of whitespace
WhitespaceOnly(t) == \A i \in 1..Len(t) : IsSpace(t[i])

\* C8: for an empty or whitespace-only text both predicts return a result
\* with entities == [] and total_entities == 0 without raising, no tagger
\* strategy is called and the model's confidence_threshold is not changed.
C8_BlankInput ==
    /\ [](WhitespaceOnly(text) =>
            /\ taggerCalls = 0
            /\ pc \in {"predict", "i_predict", "done", "i_done"}
            /\ pc = "done" =>
                  result.entities = <<>> /\ result.total_entities = 0
            /\ pc = "i_done" =>
                  /\ "raised" \notin DOMAIN response
                  /\ response.entities = <<>>
                  /\ response.total_entities = 0)
    /\ [][WhitespaceOnly(text) =>
            confidence_threshold' = confidence_threshold]_vars

\* The integrated predict returned for a whitespace-only text that is longer
\* than max_text_length, called with a threshold other than the model's.
C8_Witness ==
    /\ pc = "i_done"
    /\ text # <<>>
    /\ WhitespaceOnly(text)
    /\ Len(text) > config.max_text_length
    /\ kwargs.has_confidence_threshold
    /\ kwargs.confidence_threshold # confidence_threshold
    /\ response.total_entities = 0

IsLetter(c) == c \in {"a", "b"}

\* Number of non-blank characters of s
RECURSIVE NonBlankCount(_)
NonBlankCount(s) ==
    IF s = <<>> THEN 0
    ELSE (IF IsSpace(Head(s)) THEN 0 ELSE 1) + NonBlankCount(Tail(s))

\* The entity has at least 2 non-blank characters, one of them a letter
SubstantialText(e) ==
    /\ NonBlankCount(e.text) >= 2
    /\ \E i \in 1..Len(e.text) : IsLetter(e.text[i])

\* C11: every entity returned by _final_quality_filter has a confidence of
\* at least confidence_threshold and a non-empty text without leading or
\* trailing whitespace; an entity with at least 2 non-blank characters, one
\* of them a letter, and a confidence of at least confidence_threshold is
\* never dropped.
C11_FilterContract ==
    pc = "filtered" =>
        /\ \A i \in 1..Len(output) :
              /\ output[i].confidence >= confidence_threshold
              /\ output[i].text # <<>>
              /\ Strip(output[i].text) = output[i].text
        /\ \A i \in 1..Len(candidates) :
              (SubstantialText(candidates[i])
                  /\ candidates[i].confidence >= confidence_threshold)
                 => \E j \in 1..Len(output) :
                       output[j].text = Strip(candidates[i].text)

----------------------------------------------------------------------------
(* Frame of a single IntegratedItalianMedicalNER.predict call              *)

\* C12: after a single call of the integrated predict with any
\* confidence_threshold keyword argument, on normal return and on every
\* exception path (text too long, failure inside the model), the model's
\* confidence_threshold and config.confidence_threshold have the values they
\* had before the call (the model was built with the config's threshold).
C12_ThresholdRestored ==
    /\ []((caller = "integrated" /\ pc = "i_done") =>
            confidence_threshold = config.confidence_threshold)
    /\ [][config' = config]_vars

\* The call was made with a threshold other than the model's, the model
\* failed and the call raised RuntimeError.
C12_Witness ==
    /\ caller = "integrated"
    /\ pc = "i_done"
    /\ "raised" \in DOMAIN response
    /\ response.raised = "RuntimeError"
    /\ kwargs.has_confidence_threshold
    /\ kwargs.confidence_threshold # config.confidence_threshold
    /\ confidence_threshold = original_threshold

----------------------------------------------------------------------------
(* Two threads in IntegratedItalianMedicalNER.predict on one instance      *)
(* (SpecConcurrent).  Each thread has its own locals in threads[t]; the    *)
(* model's confidence_threshold is the attribute both threads share.  A    *)
(* thread switch can happen between any two statements.                    *)

ThreadIds == {1, 2}

\* The variables no thread writes
UnchangedByThreads ==
    UNCHANGED <<pc, text, apply_enhancement, taggerOut, patternMatches,
                dictMatches, morphMatches, boosterHits, entities, taggerCalls,
                result, candidates, output, output2, config, kwargs,
                original_threshold, stats, response, caller, raising,
                enhancedVars>>

\* Line 148: original_threshold = self.current_model.confidence_threshold
ConcurrentSaveThreshold ==
    \E t \in ThreadIds :
        /\ threads[t].pc = "save"
        /\ threads' = [threads EXCEPT
                          ![t].original_threshold = confidence_threshold,
                          ![t].pc = "set"]
        /\ UNCHANGED confidence_threshold
        /\ UnchangedByThreads

\* Line 149: self.current_model.confidence_threshold = confidence_threshold
ConcurrentSetThreshold ==
    \E t \in ThreadIds :
        /\ threads[t].pc = "set"
        /\ confidence_threshold' = threads[t].confidence_threshold
        /\ threads' = [threads EXCEPT ![t].pc = "ensemble"]
        /\ UnchangedByThreads

\* The model's predict up to _optimized_ensemble_predict, which reads
\* self.confidence_threshold
ConcurrentEnsemble ==
    \E t \in ThreadIds :
        /\ threads[t].pc = "ensemble"
        /\ threads' = [threads EXCEPT
                          ![t].entities = OptimizedEnsemblePredict(
                              taggerOut, confidence_threshold, raising),
                          ![t].pc = "enhance"]
        /\ UNCHANGED confidence_threshold
        /\ UnchangedByThreads

\* The enhancement stages and the merge: they work on the thread's list
ConcurrentEnhance ==
    \E t \in ThreadIds :
        /\ threads[t].pc = "enhance"
        /\ threads' = [threads EXCEPT
              ![t].entities =
                  IF apply_enhancement
                  THEN IntelligentEntityMerging(
                           ApplyContextualBoosting(
                               ApplyMorphologicalAnalysis(text,
                                   ApplyUltraDictionary(text,
                                       ApplyAllPatterns(text, @, patternMatches,
                                                        raising),
                                       dictMatches),
                                   morphMatches),
                               boosterHits))
                  ELSE @,
              ![t].pc = "filter"]
        /\ UNCHANGED confidence_threshold
        /\ UnchangedByThreads

\* _final_quality_filter, which reads self.confidence_threshold, the sort
\* and the return of the model's predict
ConcurrentFilter ==
    \E t \in ThreadIds :
        /\ threads[t].pc = "filter"
        /\ threads' = [threads EXCEPT
                          ![t].entities = SortByStart(
                              FinalQualityFilter(@, confidence_threshold)),
                          ![t].pc = "finally"]
        /\ UNCHANGED confidence_threshold
        /\ UnchangedByThreads

\* Line 180: self.current_model.confidence_threshold = original_threshold
ConcurrentRestore ==
    \E t \in ThreadIds :
        /\ threads[t].pc = "finally"
        /\ confidence_threshold' = threads[t].original_threshold
        /\ threads' = [threads EXCEPT ![t].pc = "returned"]
        /\ UnchangedByThreads

\* Both threads are about to swap the threshold: they were called with
\* different confidence_threshold arguments on a non-blank text
InitConcurrent ==
    /\ text = <<"a", " ", "b">>
    /\ apply_enhancement = TRUE
    /\ confidence_threshold \in Thresholds
    /\ ExternalResults(1, 1)
    /\ raising = {}
    /\ config = [DefaultConfig EXCEPT
                    !.confidence_threshold = confidence_threshold]
    /\ \E th \in [ThreadIds -> Thresholds] :
          /\ th[1] # th[2]
          /\ threads = [t \in ThreadIds |->
                           [pc |-> "save", confidence_threshold |-> th[t],
                            original_threshold |-> 0, entities |-> <<>>]]
    /\ pc = "concurrent"
    /\ caller = "integrated"
    /\ kwargs = NoKwargs
    /\ original_threshold = 0
    /\ stats = NoStats
    /\ response = [returned |-> FALSE]
    /\ NoEnhancedCall
    /\ entities = <<>>
    /\ taggerCalls = 0
    /\ result = [returned |-> FALSE]
    /\ NoUnitCall

NextConcurrent ==
    \/ ConcurrentSaveThreshold
    \/ ConcurrentSetThreshold
    \/ ConcurrentEnsemble
    \/ ConcurrentEnhance
    \/ ConcurrentFilter
    \/ ConcurrentRestore

SpecConcurrent == InitConcurrent /\ [][NextConcurrent]_vars

\* C13: in every interleaving of two integrated predict calls with different
\* confidence_threshold arguments each call returns the entities its own
\* threshold gives, and once both calls have returned the model's
\* confidence_threshold is the value it had before either call started.
C13_ConcurrentThresholds ==
    /\ \A t \in DOMAIN threads :
          threads[t].pc = "returned" =>
              threads[t].entities =
                  PredictEntities(text, taggerOut, patternMatches, dictMatches,
                                  morphMatches, boosterHits,
                                  threads[t].confidence_threshold,
                                  apply_enhancement, raising)
    /\ (\A t \in DOMAIN threads : threads[t].pc = "returned")
          => confidence_threshold = config.confidence_threshold

----------------------------------------------------------------------------
(* Order of the candidate stages of predict                                *)

\* One of the three candidate stages of predict (lines 589-591)
ApplyStage(stage, t, ents, pm, dm, mm, fails) ==
    CASE stage = "patterns" -> ApplyAllPatterns(t, ents, pm, fails)
      [] stage = "dictionary" -> ApplyUltraDictionary(t, ents, dm)
      [] stage = "morphological" -> ApplyMorphologicalAnalysis(t, ents, mm)

\* The orders in which the three stages can be run
StageOrders ==
    {order \in [1..3 -> {"patterns", "dictionary", "morphological"}] :
        \A i, j \in 1..3 : order[i] = order[j] => i = j}

\* The entities predict returns (apply_enhancement=True) when the three
\* stages are run in the given order on the tagger candidates
PredictEntitiesInOrder(order, t, out, pm, dm, mm, hits, thr, fails) ==
    LET model == OptimizedEnsemblePredict(out, thr, fails)
        s1 == ApplyStage(order[1], t, model, pm, dm, mm, fails)
        s2 == ApplyStage(order[2], t, s1, pm, dm, mm, fails)
        s3 == ApplyStage(order[3], t, s2, pm, dm, mm, fails)
    IN SortByStart(FinalQualityFilter(IntelligentEntityMerging(
           ApplyContextualBoosting(s3, hits)), thr))

\* C14: the entity list predict returns (apply_enhancement=True) is the same
\* for every order in which the pattern, dictionary and morphological stages
\* are run.
C14_StageOrderIndependent ==
    (Returned /\ apply_enhancement /\ ~IsBlank(text)) =>
        \A order \in StageOrders :
            PredictEntitiesInOrder(order, text, taggerOut, patternMatches,
                                   dictMatches, morphMatches, boosterHits,
                                   confidence_threshold, raising)
                = ResultEntities

----------------------------------------------------------------------------
(* Stage toggles of PipelineConfig (SpecToggles)                           *)

ToggleTexts == {<<" ", " ">>, <<"a", " ", "b">>}

\* Either the model's predict is called directly, or the predict (without
\* keyword arguments) of an integrated pipeline built with any combination
\* of the four enable_* toggles
InitToggles ==
    /\ text \in ToggleTexts
    /\ caller \in {"direct", "integrated"}
    /\ confidence_threshold = 20
    /\ apply_enhancement = TRUE
    /\ ExternalResults(1, 1)
    /\ raising = {}
    /\ IF caller = "direct"
       THEN /\ config = DefaultConfig
            /\ pc = "predict"
       ELSE /\ config \in [confidence_threshold : {confidence_threshold},
                           enable_contextual_boosting : BOOLEAN,
                           enable_morphological_analysis : BOOLEAN,
                           enable_pattern_matching : BOOLEAN,
                           enable_dictionary_lookup : BOOLEAN,
                           max_text_length : MaxTextLengths]
            /\ pc = "i_predict"
    /\ kwargs = NoKwargs
    /\ original_threshold = 0
    /\ stats = NoStats
    /\ response = [returned |-> FALSE]
    /\ NoEnhancedCall
    /\ threads = NoThreads
    /\ entities = <<>>
    /\ taggerCalls = 0
    /\ result = [returned |-> FALSE]
    /\ NoUnitCall

SpecToggles == InitToggles /\ [][NextIntegrated]_vars

\* The integrated predict returned a result (it did not raise)
IntegratedReturned ==
    /\ pc = "i_done"
    /\ "entities" \in DOMAIN response

NoEntityFrom(source) ==
    \A i \in 1..Len(response.entities) : response.entities[i].source # source

\* C15: with a toggle of the config set to False the integrated predict
\* skips that stage: the result has no entity contributed by a disabled
\* pattern, dictionary or morphological stage and no contextual boost when
\* boosting is disabled; with every toggle True all stages run.
C15_TogglesSkipStages ==
    IntegratedReturned =>
        /\ ~config.enable_pattern_matching => NoEntityFrom("pattern_matching")
        /\ ~config.enable_dictionary_lookup => NoEntityFrom("dictionary_lookup")
        /\ ~config.enable_morphological_analysis
              => NoEntityFrom("morphological_analysis")
        /\ ~config.enable_contextual_boosting =>
              \A i \in 1..Len(response.entities) :
                  response.entities[i].contextual_boost = 0
        /\ (/\ config.enable_pattern_matching
            /\ config.enable_dictionary_lookup
            /\ config.enable_morphological_analysis
            /\ config.enable_contextual_boosting
            /\ ~IsBlank(text))
              => response.entities =
                    [i \in 1..Len(result.entities) |->
                        FormatEntity(result.entities[i], TRUE)]

----------------------------------------------------------------------------
(* predict with failing and faulty sources (SpecFaulty)                    *)

MaxFaultyTagger == 1

\* Spans of a faulty tagger: empty, reversed, or ending after the text
MalformedSpans(t) ==
    IF t = <<>> THEN {}
    ELSE {<<1, 1>>, <<2, 1>>, <<Len(t) - 1, Len(t) + 2>>}

MalformedResults(t) ==
    {[word |-> <<"a">>, entity_group |-> "PROBLEM",
      start |-> sp[1], end |-> sp[2], score |-> 50] :
        sp \in MalformedSpans(t)}

\* At most one pipeline or one pattern raises
FailingSets == {{}, {"simple"}, {"PROBLEM_comprehensive"}}

InitFaulty ==
    /\ text \in Texts
    /\ apply_enhancement \in BOOLEAN
    /\ confidence_threshold \in Thresholds
    /\ ExternalResultsFrom(TaggerResults(text) \cup MalformedResults(text),
                           MaxFaultyTagger, MaxMatches)
    /\ ~apply_enhancement =>
          /\ patternMatches = <<>> /\ dictMatches = <<>> /\ morphMatches = <<>>
          /\ boosterHits = {}
    /\ raising \in FailingSets
    /\ pc = "predict"
    /\ entities = <<>>
    /\ taggerCalls = 0
    /\ result = [returned |-> FALSE]
    /\ NoUnitCall
    /\ NoIntegration
    /\ NoEnhancedCall

SpecFaulty == InitFaulty /\ [][Next]_vars

\* The entities are the candidate pool handed to contextual boosting (or,
\* without enhancement, to the filter)
PoolReady ==
    \/ pc = "boosting"
    \/ (pc = "filter" /\ ~apply_enhancement)

\* C16: when the call of one tagger strategy or the matching of one pattern
\* raises, predict still returns a result without raising, every candidate
\* of the other strategies is in the candidate pool handed to contextual
\* boosting and merging, and every match of the other patterns is in the
\* pool or was left out as a significant overlap of a pool candidate.
C16_FailureIsolated ==
    /\ pc = "done" =>
          /\ "raised" \notin DOMAIN result
          /\ "entities" \in DOMAIN result
    /\ PoolReady =>
          /\ \A i \in 1..Len(Pipelines) :
                Pipelines[i] \notin raising =>
                    \A k \in 1..Len(taggerOut[Pipelines[i]]) :
                        LET r == taggerOut[Pipelines[i]][k]
                        IN r.score >= confidence_threshold =>
                              \E j \in 1..Len(entities) :
                                  /\ entities[j].source = ModelSource(Pipelines[i])
                                  /\ entities[j].start = r.start
                                  /\ entities[j].end = r.end
                                  /\ entities[j].text = r.word
          /\ \A k \in 1..Len(patternMatches) :
                patternMatches[k].pattern_type \notin raising =>
                    HasSignificantOverlap(
                        <<patternMatches[k].start, patternMatches[k].end>>,
                        SpansOf(entities))

\* The first pipeline raised and the candidates of a later pipeline are in
\* the pool.
C16_Witness ==
    /\ PoolReady
    /\ raising = {"simple"}
    /\ \E k \in 1..Len(taggerOut["max"]) :
          taggerOut["max"][k].score >= confidence_threshold
    /\ \E j \in 1..Len(entities) : entities[j].source = "model_max"
    /\ \A j \in 1..Len(entities) : entities[j].source # "model_simple"

\* The span lies inside a text of the given length and is not empty
ValidSpan(e, n) == e.start < e.end /\ e.end <= n

\* C17: a tagger candidate with start >= end or end > len(text) is discarded
\* before _intelligent_entity_merging runs: the merge never receives such a
\* candidate and no entity returned by predict has such a span.
C17_MalformedSpansDiscarded ==
    /\ pc = "merging" =>
          \A i \in 1..Len(entities) : ValidSpan(entities[i], Len(text))
    /\ (pc = "done" /\ ~IsBlank(text)) =>
          \A i \in 1..Len(ResultEntities) :
              ValidSpan(ResultEntities[i], Len(text))

----------------------------------------------------------------------------
(* Output of _optimized_ensemble_predict                                   *)

\* The entities are what _optimized_ensemble_predict returned
EnsembleReturned ==
    \/ pc = "patterns"
    \/ (pc = "filter" /\ ~apply_enhancement)

\* A score clamped into [0,1]
ClampUnit(score) == Max(0, Min(100, score))

\* C18: a tagger result whose raw score lies outside [0,1] becomes a
\* candidate whose confidence is clamped into [0,1]; it is dropped only when
\* its clamped score is below the threshold, never because the score is out
\* of range.
C18_EnsembleClampsScores ==
    EnsembleReturned =>
        /\ \A j \in 1..Len(entities) :
              InUnitRange(entities[j].confidence)
        /\ \A i \in 1..Len(Pipelines) :
              Pipelines[i] \notin raising =>
                  \A k \in 1..Len(taggerOut[Pipelines[i]]) :
                      LET r == taggerOut[Pipelines[i]][k]
                      IN ClampUnit(r.score) >= confidence_threshold =>
                            \E j \in 1..Len(entities) :
                                /\ entities[j].source = ModelSource(Pipelines[i])
                                /\ entities[j].start = r.start
                                /\ entities[j].end = r.end

----------------------------------------------------------------------------
(* Order of the entities returned by predict                               *)

\* C19: for every text, tagger output and value of apply_enhancement the
\* entities of the result of predict are ordered by start ascending.
C19_ResultSortedByStart ==
    (Returned /\ ~IsBlank(text)) => SortedByStart(ResultEntities)

\* Without enhancement the tagger reported a later span before an earlier
\* one and both entities were returned, the earlier one first.
C19_Witness ==
    /\ Returned
    /\ ~apply_enhancement
    /\ Len(taggerOut["first"]) = 2
    /\ taggerOut["first"][1].start > taggerOut["first"][2].start
    /\ Len(ResultEntities) >= 2
    /\ ResultEntities[1].start < ResultEntities[2].start

----------------------------------------------------------------------------
(* _resolve_conflict_proper on two overlapping candidates                  *)

\* confidence + source bonus + length bonus
UncappedScore(e) == e.confidence + SourceBonus(e.source) + Min(2, Len(e.text))

\* The direct merge call was made on exactly two candidates that overlap, so
\* that output holds the one entity _resolve_conflict_proper returned for
\* entities[1], entities[2] (the candidates in the order of their start)
ResolvedPair ==
    /\ pc = "merged"
    /\ Len(candidates) = 2
    /\ Overlap(candidates[1], candidates[2])

\* What the claim says of the entity w returned for e1, e2 whose scores are
\* s1, s2
ResolveContract(w, e1, e2, s1, s2) ==
    /\ w.start = Min(e1.start, e2.start)
    /\ w.end = Max(e1.end, e2.end)
    /\ w.confidence = Min(95, Max(s1, s2))
    /\ s1 > s2 => (w.label = e1.label /\ w.source = e1.source)
    /\ s2 > s1 => (w.label = e2.label /\ w.source = e2.source)

\* C20 as stated: _resolve_conflict_proper returns one entity with the union
\* span, confidence min(0.95, max(score1, score2)) and the label and source
\* of the candidate whose score confidence + source bonus + length bonus is
\* strictly higher; neither input dict is modified.
C20_ResolveUncappedScore ==
    ResolvedPair =>
        /\ Len(output) = 1
        /\ ResolveContract(output[1], entities[1], entities[2],
                           UncappedScore(entities[1]),
                           UncappedScore(entities[2]))
        /\ entities = SortByStart(candidates)

\* C20 amended: the same with score = min(0.95, confidence + source bonus +
\* length bonus), the score the code compares.
C20_ResolveConflict ==
    ResolvedPair =>
        /\ Len(output) = 1
        /\ ResolveContract(output[1], entities[1], entities[2],
                           Min(95, UncappedScore(entities[1])),
                           Min(95, UncappedScore(entities[2])))
        /\ entities = SortByStart(candidates)

\* The second candidate has the strictly higher capped score and ends
\* before the first: the entity has its label and source and the span of
\* the first.
C20_Witness ==
    /\ ResolvedPair
    /\ Min(95, UncappedScore(entities[2])) > Min(95, UncappedScore(entities[1]))
    /\ entities[1].source # entities[2].source
    /\ entities[2].end < entities[1].end
    /\ output[1].source = entities[2].source
    /\ output[1].end = entities[1].end

----------------------------------------------------------------------------
(* Ties in _resolve_conflict_proper                                        *)

\* MODEL > PATTERN > DICTIONARY > MORPHOLOGICAL
SourcePriority(source) ==
    CASE source \in {"model_simple", "model_max", "model_average",
                     "model_first"}             -> 4
      [] source = "pattern_matching"            -> 3
      [] source = "dictionary_lookup"           -> 2
      [] source = "morphological_analysis"      -> 1
      [] OTHER                                  -> 0

SpanLength(e) == e.end - e.start

\* w has the text, label and source of the candidate e
WinnerIs(w, e) ==
    /\ w.text = e.text
    /\ w.label = e.label
    /\ w.source = e.source

\* C21: when the two overlapping candidates have equal quality scores, the
\* winner is the candidate of the higher-priority source (MODEL > PATTERN >
\* DICTIONARY > MORPHOLOGICAL) and, when the sources also tie, the one with
\* the longer span, whichever of the two starts first.
C21_TieBreakBySource ==
    (/\ ResolvedPair
     /\ Min(95, UncappedScore(entities[1])) = Min(95, UncappedScore(entities[2])))
        => LET e1 == entities[1]
               e2 == entities[2]
               p1 == SourcePriority(e1.source)
               p2 == SourcePriority(e2.source)
           IN /\ p1 > p2 => WinnerIs(output[1], e1)
              /\ p2 > p1 => WinnerIs(output[1], e2)
              /\ (p1 = p2 /\ SpanLength(e1) > SpanLength(e2))
                    => WinnerIs(output[1], e1)
              /\ (p1 = p2 /\ SpanLength(e2) > SpanLength(e1))
                    => WinnerIs(output[1], e2)

\* C22: _intelligent_entity_merging processes the candidates in order of
\* start ascending and, among candidates with the same start, the longer
\* span first, whatever the input order (entities is the list as the merge
\* sorted it in place).
C22_LongerSpanFirst ==
    pc = "merged" =>
        \A i \in 1..(Len(entities) - 1) :
            /\ entities[i].start <= entities[i + 1].start
            /\ entities[i].start = entities[i + 1].start
                  => SpanLength(entities[i]) >= SpanLength(entities[i + 1])

----------------------------------------------------------------------------
(* AdvancedPerformanceItalianMedicalNER: contextual boosting and merging   *)
(* (SpecAdvanced).  boosterHits is the set of <<context type, pattern      *)
(* number>> pairs whose pattern re.search finds in the context window; an  *)
(* entity without the key merge_info has empty merge_info lists.           *)

\* _load_contextual_indicators: context type, number of patterns, boost
contextual_indicators ==
    << [type |-> "medical_setting",    patterns |-> 5, boost |-> 15],
       [type |-> "treatment_context",  patterns |-> 4, boost |-> 12],
       [type |-> "diagnostic_context", patterns |-> 4, boost |-> 10],
       [type |-> "symptom_context",    patterns |-> 4, boost |-> 8] >>

\* Variant of ContextTypeBoost: the loop over the patterns has no break
RECURSIVE ContextTypeBoostNoBreak(_, _, _)
ContextTypeBoostNoBreak(info, j, hits) ==
    IF j > info.patterns THEN 0
    ELSE (IF <<info.type, j>> \in hits THEN info.boost ELSE 0)
         + ContextTypeBoostNoBreak(info, j + 1, hits)

\* The loop over context_info['patterns'] from pattern j on: the first
\* pattern found adds the boost and breaks
RECURSIVE ContextTypeBoost(_, _, _)
ContextTypeBoost(info, j, hits) ==
    IF j > info.patterns THEN 0
    ELSE IF <<info.type, j>> \in hits THEN info.boost
         ELSE ContextTypeBoost(info, j + 1, hits)

\* The loop over self.contextual_indicators: total_boost
RECURSIVE AdvancedTotalBoost(_, _)
AdvancedTotalBoost(i, hits) ==
    IF i > Len(contextual_indicators) THEN 0
    ELSE ContextTypeBoost(contextual_indicators[i], 1, hits)
         + AdvancedTotalBoost(i + 1, hits)

\* _apply_contextual_boosting; the texts of the model are shorter than the
\* window, so every entity has the same context
AdvancedApplyContextualBoosting(ents, hits) ==
    LET total_boost == AdvancedTotalBoost(1, hits)
    IN [i \in 1..Len(ents) |->
           [ents[i] EXCEPT !.confidence = Min(98, ents[i].confidence + total_boost),
                           !.contextual_boost = total_boost]]

AdvancedSourceBonus(source) ==
    CASE source = "ensemble_weighted"    -> 15
      [] source = "advanced_pattern"     -> 12
      [] source = "morphological_direct" -> 10
      [] source = "ensemble_simple"      -> 8
      [] source = "ensemble_max"         -> 8
      [] OTHER                           -> 0

\* score_entity
AdvancedScoreEntity(e) ==
    e.confidence + AdvancedSourceBonus(e.source) + e.contextual_boost
        + Min(10, Len(e.text))

\* _resolve_entity_conflict
AdvancedResolveEntityConflict(entity1, entity2) ==
    LET score1 == AdvancedScoreEntity(entity1)
        score2 == AdvancedScoreEntity(entity2)
        winner == IF score1 >= score2 THEN entity1 ELSE entity2
    IN [winner EXCEPT !.start = Min(entity1.start, entity2.start),
                      !.end = Max(entity1.end, entity2.end),
                      !.confidence = Max(score1, score2),
                      !.merge_info =
                          [merged_from |-> <<entity1.source, entity2.source>>,
                           original_scores |-> <<score1, score2>>]]

RECURSIVE AdvancedMergeLoop(_, _, _)
AdvancedMergeLoop(current_entity, rest, merged) ==
    IF rest = <<>> THEN Append(merged, current_entity)
    ELSE LET next_entity == Head(rest)
         IN IF current_entity.end > next_entity.start
               /\ current_entity.start < next_entity.end
            THEN AdvancedMergeLoop(
                     AdvancedResolveEntityConflict(current_entity, next_entity),
                     Tail(rest), merged)
            ELSE AdvancedMergeLoop(next_entity, Tail(rest),
                                   Append(merged, current_entity))

\* _advanced_entity_merging
AdvancedEntityMerging(ents) ==
    IF ents = <<>> THEN ents
    ELSE LET sorted == SortByStart(ents)
         IN AdvancedMergeLoop(Head(sorted), Tail(sorted), <<>>)

AdvancedSources == {"ensemble_weighted", "advanced_pattern"}

\* Candidates as they reach _apply_contextual_boosting: spans of BaseText
\* without contextual_boost and merge_info
AdvancedCandidateSet ==
    {[text |-> Slice(BaseText, sp[1], sp[2]),
      label |-> IF src = "ensemble_weighted" THEN "PROBLEM" ELSE "TEST",
      start |-> sp[1], end |-> sp[2],
      confidence |-> c, source |-> src, contextual_boost |-> 0,
      merge_info |-> [merged_from |-> <<>>, original_scores |-> <<>>]] :
        sp \in {x \in (0..MaxPos) \X (0..MaxPos) : x[1] < x[2]},
        c \in MergeConfidences, src \in AdvancedSources}

\* What re.search finds in the context: nothing, two patterns of one context
\* type, patterns of three types, or one pattern of each type
AdvancedHitSets ==
    { {},
      {<<"medical_setting", 1>>, <<"medical_setting", 3>>},
      {<<"medical_setting", 2>>, <<"treatment_context", 1>>,
       <<"treatment_context", 4>>, <<"symptom_context", 4>>},
      {<<"medical_setting", 5>>, <<"treatment_context", 2>>,
       <<"diagnostic_context", 1>>, <<"symptom_context", 1>>} }

InitAdvanced ==
    /\ candidates \in SeqsUpTo(AdvancedCandidateSet, MaxCands)
    /\ entities = candidates
    /\ boosterHits \in AdvancedHitSets
    /\ pc = "adv_boosting"
    /\ output = <<>>
    /\ output2 = <<>>
    /\ confidence_threshold = 25
    /\ text = BaseText
    /\ apply_enhancement = TRUE
    /\ taggerOut = [p \in {"simple", "max", "average", "first"} |-> <<>>]
    /\ patternMatches = <<>>
    /\ dictMatches = <<>>
    /\ morphMatches = <<>>
    /\ raising = {}
    /\ taggerCalls = 0
    /\ result = [returned |-> FALSE]
    /\ NoIntegration
    /\ NoEnhancedCall

\* entities = self._apply_contextual_boosting(text, entities)
AdvancedBoosting ==
    /\ pc = "adv_boosting"
    /\ entities' = AdvancedApplyContextualBoosting(entities, boosterHits)
    /\ pc' = "adv_merging"
    /\ UNCHANGED <<text, apply_enhancement, confidence_threshold, taggerOut,
                   patternMatches, dictMatches, morphMatches, boosterHits,
                   taggerCalls, result, candidates, output, output2, config,
                   kwargs, original_threshold, stats, response, caller,
                   raising, threads, enhancedVars>>

\* entities = self._advanced_entity_merging(entities); output keeps the list
\* that was passed to the merge
AdvancedMerging ==
    /\ pc = "adv_merging"
    /\ output' = entities
    /\ entities' = AdvancedEntityMerging(entities)
    /\ pc' = "adv_merged"
    /\ UNCHANGED <<text, apply_enhancement, confidence_threshold, taggerOut,
                   patternMatches, dictMatches, morphMatches, boosterHits,
                   taggerCalls, result, candidates, output2, config,
                   kwargs, original_threshold, stats, response, caller,
                   raising, threads, enhancedVars>>

NextAdvanced == AdvancedBoosting \/ AdvancedMerging

SpecAdvanced == InitAdvanced /\ [][NextAdvanced]_vars

\* The candidates fused into the merged entity w: those whose span lies
\* inside the span of w
FusedInto(w) ==
    {i \in 1..Len(candidates) :
        candidates[i].start >= w.start /\ candidates[i].end <= w.end}

SeqRange(s) == {s[i] : i \in 1..Len(s)}

\* C23: after _advanced_entity_merging every entity made by fusing k >= 2
\* overlapping candidates has a merge_info.merged_from list that contains
\* the source of every one of the k candidates, also for k >= 3.
C23_ProvenanceComplete ==
    pc = "adv_merged" =>
        \A j \in 1..Len(entities) :
            Cardinality(FusedInto(entities[j])) >= 2 =>
                \A i \in FusedInto(entities[j]) :
                    candidates[i].source
                        \in SeqRange(entities[j].merge_info.merged_from)

\* The boost values of the context types that have a pattern in hits, each
\* type counted once
RECURSIVE SumOfMatchedTypes(_, _)
SumOfMatchedTypes(i, hits) ==
    IF i > Len(contextual_indicators) THEN 0
    ELSE (IF \E j \in 1..contextual_indicators[i].patterns :
                <<contextual_indicators[i].type, j>> \in hits
          THEN contextual_indicators[i].boost ELSE 0)
         + SumOfMatchedTypes(i + 1, hits)

\* C24: after _apply_contextual_boosting every context type has contributed
\* its boost at most once however many of its patterns match: the recorded
\* contextual_boost is the sum of the boosts of the matched types, and the
\* confidence is min(0.98, original confidence + contextual_boost), never
\* above 1.0.
C24_BoostOncePerType ==
    pc = "adv_merging" =>
        /\ Len(entities) = Len(candidates)
        /\ \A i \in 1..Len(entities) :
              /\ entities[i].contextual_boost = SumOfMatchedTypes(1, boosterHits)
              /\ entities[i].confidence =
                    Min(98, candidates[i].confidence
                            + entities[i].contextual_boost)
              /\ entities[i].confidence <= 100

\* Two patterns of one context type and patterns of two other types match:
\* the entity received 0.15 + 0.12 + 0.08 and its confidence was capped.
C24_Witness ==
    /\ pc = "adv_merging"
    /\ <<"treatment_context", 1>> \in boosterHits
    /\ <<"treatment_context", 4>> \in boosterHits
    /\ \E i \in 1..Len(entities) :
          /\ entities[i].contextual_boost = 35
          /\ candidates[i].confidence = 85
          /\ entities[i].confidence = 98

----------------------------------------------------------------------------
(* Short texts in _final_quality_filter                                    *)

\* The candidate was kept by the filter
KeptByFilter(c) ==
    \E j \in 1..Len(output) :
        /\ output[j].text = Strip(c.text)
        /\ output[j].confidence = Max(0, Min(95, c.confidence))

\* C25: _final_quality_filter drops an entity whose trimmed text is shorter
\* than 2 characters unless its confidence exceeds 0.8: with confidence
\* <= 0.8 it is dropped, with confidence > 0.8 it is kept provided it passes
\* the punctuation/digit check and the threshold check.
C25_ShortTextRule ==
    pc = "filtered" =>
        \A i \in 1..Len(candidates) :
            LET c == candidates[i]
                stripped == Strip(c.text)
            IN /\ (Len(stripped) < 2 /\ c.confidence <= 80)
                     => ~KeptByFilter(c)
               /\ (/\ Len(stripped) = 1
                   /\ c.confidence > 80
                   /\ ~PunctOrNumberOnly(stripped)
                   /\ Max(0, Min(95, c.confidence)) >= confidence_threshold)
                     => KeptByFilter(c)

----------------------------------------------------------------------------
(* EnhancedItalianMedicalNER._post_process_bioes                            *)
(* (src/enhanced_inference.py).  A tag is the sequence of its parts:       *)
(* "B-PROBLEM" is <<"B", "-", "PROBLEM">> and "O" is <<"O">>, so that      *)
(* startswith, endswith and the slice [2:] are computed as in Python.      *)

\* Longest tag sequence given to _post_process_bioes
MaxTags == 4

\* str.startswith
StartsWith(s, prefix) ==
    /\ Len(s) >= Len(prefix)
    /\ SubSeq(s, 1, Len(prefix)) = prefix

\* str.endswith
EndsWith(s, suffix) ==
    /\ Len(s) >= Len(suffix)
    /\ SubSeq(s, Len(s) - Len(suffix) + 1, Len(s)) = suffix

\* current_pred[2:]
TagType(tag) == SubSeq(tag, 3, Len(tag))

\* f'{prefix}-{entity_type}'
TagOf(prefix, entity_type) == <<prefix, "-">> \o entity_type

\* The inner while loop: the I- tags of entity_type that continue the run
RECURSIVE ContinueRun(_, _, _, _)
ContinueRun(preds, k, entity_type, sequence) ==
    IF k < Len(preds) /\ StartsWith(preds[k + 1], TagOf("I", entity_type))
    THEN ContinueRun(preds, k + 1, entity_type, Append(sequence, preds[k + 1]))
    ELSE [sequence |-> sequence, i |-> k]

\* The branch of a B- tag: the run it starts and the index after the run
BeginRun(preds, k) ==
    LET entity_type == TagType(preds[k + 1])
        run == ContinueRun(preds, k + 1, entity_type, <<preds[k + 1]>>)
    IN IF /\ run.i < Len(preds)
          /\ StartsWith(preds[run.i + 1], TagOf("E", entity_type))
       THEN [sequence |-> Append(run.sequence, preds[run.i + 1]),
             i |-> run.i + 1]
       ELSE IF Len(run.sequence) > 1
            THEN [sequence |-> [run.sequence EXCEPT
                                   ![Len(run.sequence)] = TagOf("E", entity_type)],
                  i |-> run.i]
            ELSE run

\* Variant of OrphanTag that keeps every orphaned tag
OrphanTagKept(done, current_pred) == current_pred

\* The branch of an I- or E- tag outside a run: the tag appended for it
OrphanTag(done, current_pred) ==
    LET entity_type == TagType(current_pred)
    IN IF \/ done = <<>>
          \/ ~EndsWith(done[Len(done)], <<"-">> \o entity_type)
       THEN TagOf("S", entity_type)
       ELSE current_pred

\* The call under way is a direct call of _post_process_bioes
UnchangedByBioes ==
    UNCHANGED <<text, apply_enhancement, confidence_threshold, taggerOut,
                patternMatches, dictMatches, morphMatches, boosterHits,
                entities, taggerCalls, result, candidates, output2, config,
                kwargs, original_threshold, stats, response, caller, raising,
                threads, tokens, predictions, confidence_scores>>

\* One iteration of the outer loop on a B- tag
BioesRun ==
    /\ pc = "bioes_loop"
    /\ loop_i < Len(predictions)
    /\ StartsWith(predictions[loop_i + 1], <<"B", "-">>)
    /\ LET run == BeginRun(predictions, loop_i)
       IN /\ processed' = processed \o run.sequence
          /\ loop_i' = run.i
    /\ UNCHANGED <<pc, output>>
    /\ UnchangedByBioes

\* One iteration of the outer loop on an I- or E- tag
BioesOrphan ==
    /\ pc = "bioes_loop"
    /\ loop_i < Len(predictions)
    /\ ~StartsWith(predictions[loop_i + 1], <<"B", "-">>)
    /\ \/ StartsWith(predictions[loop_i + 1], <<"I", "-">>)
       \/ StartsWith(predictions[loop_i + 1], <<"E", "-">>)
    /\ processed' = Append(processed, OrphanTag(processed, predictions[loop_i + 1]))
    /\ loop_i' = loop_i + 1
    /\ UNCHANGED <<pc, output>>
    /\ UnchangedByBioes

\* One iteration of the outer loop on any other tag
BioesOther ==
    /\ pc = "bioes_loop"
    /\ loop_i < Len(predictions)
    /\ ~StartsWith(predictions[loop_i + 1], <<"B", "-">>)
    /\ ~StartsWith(predictions[loop_i + 1], <<"I", "-">>)
    /\ ~StartsWith(predictions[loop_i + 1], <<"E", "-">>)
    /\ processed' = Append(processed, predictions[loop_i + 1])
    /\ loop_i' = loop_i + 1
    /\ UNCHANGED <<pc, output>>
    /\ UnchangedByBioes

\* The loop condition fails: return processed
BioesReturn ==
    /\ pc = "bioes_loop"
    /\ loop_i >= Len(predictions)
    /\ output' = processed
    /\ pc' = "bioes_done"
    /\ UNCHANGED <<processed, loop_i>>
    /\ UnchangedByBioes

\* The entity types of the model's labels
BioesTypes == {<<"PROBLEM">>, <<"TREATMENT">>}

\* The labels of the model: O and B-, I-, E-, S- of every entity type
BioesTags ==
    {<<"O">>} \cup
    {TagOf(prefix, entity_type) :
        prefix \in {"B", "I", "E", "S"}, entity_type \in BioesTypes}

InitBioes ==
    /\ predictions \in SeqsUpTo(BioesTags, MaxTags)
    /\ processed = <<>>
    /\ loop_i = 0
    /\ tokens = <<>>
    /\ confidence_scores = <<>>
    /\ pc = "bioes_loop"
    /\ candidates = predictions
    /\ output = <<>>
    /\ output2 = <<>>
    /\ text = <<>>
    /\ apply_enhancement = TRUE
    /\ confidence_threshold = 70
    /\ taggerOut = [p \in {} |-> <<>>]
    /\ patternMatches = <<>>
    /\ dictMatches = <<>>
    /\ morphMatches = <<>>
    /\ boosterHits = {}
    /\ raising = {}
    /\ entities = <<>>
    /\ taggerCalls = 0
    /\ result = [returned |-> FALSE]
    /\ NoIntegration

NextBioes == BioesRun \/ BioesOrphan \/ BioesOther \/ BioesReturn

\* Every iteration of the loop is taken as soon as the previous one is over
SpecBioes == InitBioes /\ [][NextBioes]_vars /\ WF_vars(NextBioes)

\* Tag k of the input has the given prefix and entity type
IsTag(preds, k, prefix, entity_type) == preds[k] = TagOf(prefix, entity_type)

\* Tag k of the input lies inside the run of a B- tag of its type: a B-X
\* precedes it and only I-X tags stand between them
InsideRun(preds, k, entity_type) ==
    \E j \in 1..(k - 1) :
        /\ IsTag(preds, j, "B", entity_type)
        /\ \A m \in (j + 1)..(k - 1) : IsTag(preds, m, "I", entity_type)

\* The tag is of the given entity type
OfType(tag, entity_type) == Len(tag) = 3 /\ TagType(tag) = entity_type

\* C26: for every BIOES tag sequence _post_process_bioes terminates and
\* returns a sequence of the same length as its input, in which every I-X or
\* E-X tag that is not inside a B-X run and whose preceding output tag is not
\* of type X has been replaced by S-X.
C26_OrphansBecomeSingle ==
    /\ <>(pc = "bioes_done")
    /\ [](pc = "bioes_done" =>
            /\ Len(output) = Len(predictions)
            /\ \A k \in 1..Len(predictions) : \A entity_type \in BioesTypes :
                  (/\ \/ IsTag(predictions, k, "I", entity_type)
                      \/ IsTag(predictions, k, "E", entity_type)
                   /\ ~InsideRun(predictions, k, entity_type)
                   /\ k > 1 => ~OfType(output[k - 1], entity_type))
                    => output[k] = TagOf("S", entity_type))

\* An orphaned I- tag after a complete run of another type was made an S- tag
C26_Witness ==
    /\ pc = "bioes_done"
    /\ \E k \in 2..Len(predictions) :
          /\ IsTag(predictions, k, "I", <<"TREATMENT">>)
          /\ IsTag(predictions, 1, "B", <<"PROBLEM">>)
          /\ OfType(output[k - 1], <<"PROBLEM">>)
          /\ output[k] = TagOf("S", <<"TREATMENT">>)

\* The B- tag at k is followed by zero or more I- tags and an E- tag of its type
RunClosed(tags, k, entity_type) ==
    \E e \in (k + 1)..Len(tags) :
        /\ IsTag(tags, e, "E", entity_type)
        /\ \A m \in (k + 1)..(e - 1) : IsTag(tags, m, "I", entity_type)

\* C27: the output of _post_process_bioes is a consistent BIOES sequence:
\* every B-X is followed by zero or more I-X and then an E-X, and every I-X
\* or E-X occurs only inside such a run (no B-X without its E-X, no I-X or
\* E-X following an E-X or S-X).
C27_OutputConsistent ==
    pc = "bioes_done" =>
        \A k \in 1..Len(output) : \A entity_type \in BioesTypes :
            /\ IsTag(output, k, "B", entity_type)
                  => RunClosed(output, k, entity_type)
            /\ (\/ IsTag(output, k, "I", entity_type)
                \/ IsTag(output, k, "E", entity_type))
                  => InsideRun(output, k, entity_type)

----------------------------------------------------------------------------
(* EnhancedItalianMedicalNER._apply_pattern_enhancement                    *)
(* A token is a sequence of characters; a match of re.finditer is a record *)
(* [start, end, entity_type] with the offsets of match.start() and         *)
(* match.end() in ' '.join(tokens), in the order the loops meet them.      *)

\* Longest token list given to _apply_pattern_enhancement
MaxTokens == 2

\* The keys of medical_patterns, as the parts entity_type.split('_') returns
medical_patterns ==
    <<<<"PROBLEM", "indicators">>, <<"TREATMENT", "indicators">>,
      <<"TEST", "indicators">>>>

\* ' '.join(toks)
RECURSIVE JoinTokens(_)
JoinTokens(toks) ==
    IF toks = <<>> THEN <<>>
    ELSE IF Len(toks) = 1 THEN Head(toks)
    ELSE Head(toks) \o <<" ">> \o JoinTokens(Tail(toks))

\* start_token_idx and end_token_idx are None
NoToken == -1

\* The loop that maps the character offsets of a match to token indices,
\* from token k (0-based) at character offset current_pos
RECURSIVE MapToTokens(_, _, _, _, _, _)
MapToTokens(toks, k, current_pos, start_pos, end_pos, start_token_idx) ==
    IF k >= Len(toks)
    THEN [start_token_idx |-> start_token_idx, end_token_idx |-> NoToken]
    ELSE LET reach == current_pos + Len(toks[k + 1]) + 1
             start_idx == IF current_pos <= start_pos /\ start_pos < reach
                          THEN k ELSE start_token_idx
         IN IF current_pos <= end_pos /\ end_pos <= reach
            THEN [start_token_idx |-> start_idx, end_token_idx |-> k]
            ELSE MapToTokens(toks, k + 1, reach, start_pos, end_pos, start_idx)

\* Variant of EnhancedTag that ignores the confidence of the token
EnhancedTagAnyConfidence(tag, idx, span, entity_label, conf, thr) ==
    IF span.start_token_idx = span.end_token_idx THEN TagOf("S", entity_label)
    ELSE IF idx = span.start_token_idx THEN TagOf("B", entity_label)
    ELSE IF idx = span.end_token_idx THEN TagOf("E", entity_label)
    ELSE TagOf("I", entity_label)

\* The tag of token idx (0-based) of a match mapped to the tokens of span
EnhancedTag(tag, idx, span, entity_label, conf, thr) ==
    IF conf < thr
    THEN IF span.start_token_idx = span.end_token_idx
         THEN TagOf("S", entity_label)
         ELSE IF idx = span.start_token_idx THEN TagOf("B", entity_label)
         ELSE IF idx = span.end_token_idx THEN TagOf("E", entity_label)
         ELSE TagOf("I", entity_label)
    ELSE tag

\* The body of the loop over the matches, for one match
EnhanceMatch(toks, enhanced, confs, thr, match) ==
    LET entity_label == <<Head(match.entity_type)>>
        span == MapToTokens(toks, 0, 0, match.start, match.end, NoToken)
    IN IF span.start_token_idx # NoToken /\ span.end_token_idx # NoToken
       THEN [k \in 1..Len(enhanced) |->
                IF span.start_token_idx <= k - 1 /\ k - 1 <= span.end_token_idx
                THEN EnhancedTag(enhanced[k], k - 1, span, entity_label,
                                 confs[k], thr)
                ELSE enhanced[k]]
       ELSE enhanced

RECURSIVE EnhanceMatches(_, _, _, _, _)
EnhanceMatches(toks, enhanced, confs, thr, matches) ==
    IF matches = <<>> THEN enhanced
    ELSE EnhanceMatches(toks,
                        EnhanceMatch(toks, enhanced, confs, thr, Head(matches)),
                        confs, thr, Tail(matches))

\* _apply_pattern_enhancement(tokens, predictions, confidence_scores): the
\* list it returns; it works on predictions.copy()
ApplyPatternEnhancement(toks, preds, confs, thr, matches) ==
    EnhanceMatches(toks, preds, confs, thr, matches)

\* A direct call of _apply_pattern_enhancement
PatternEnhancement ==
    /\ pc = "call_enhancement"
    /\ output' = ApplyPatternEnhancement(tokens, predictions, confidence_scores,
                                         confidence_threshold, patternMatches)
    /\ pc' = "enhanced"
    /\ UNCHANGED <<text, apply_enhancement, confidence_threshold, taggerOut,
                   patternMatches, dictMatches, morphMatches, boosterHits,
                   entities, taggerCalls, result, candidates, output2, config,
                   kwargs, original_threshold, stats, response, caller, raising,
                   threads, enhancedVars>>

\* The tokens of the call
EnhancedTokens == {<<"a">>, <<"a", "a">>}

\* The tags the tagger predicted
PredictedTags == {<<"O">>, TagOf("S", <<"TEST">>)}

\* The confidences of the tokens; the threshold of the model is 0.5
TokenConfidences == {30, 50}

\* The matches a pattern of the entity type can have in the text t: they
\* start on a character of a token and end after one
TypeMatches(t, entity_type) ==
    {[start |-> s, end |-> e, entity_type |-> entity_type] :
        <<s, e>> \in {sp \in (0..Len(t)) \X (0..Len(t)) :
                         /\ sp[1] < sp[2]
                         /\ t[sp[1] + 1] # " "
                         /\ t[sp[2]] # " "}}

\* The matches of the call, in the order of the keys of medical_patterns: at
\* most one of a PROBLEM pattern, then at most one of a TREATMENT pattern
EnhancedMatchSets(t) ==
    LET one(entity_type) ==
            {<<>>} \cup {<<m>> : m \in TypeMatches(t, entity_type)}
    IN {p \o q : p \in one(medical_patterns[1]), q \in one(medical_patterns[2])}

InitPattern ==
    /\ tokens \in SeqsUpTo(EnhancedTokens, MaxTokens)
    /\ predictions \in [1..Len(tokens) -> PredictedTags]
    /\ confidence_scores \in [1..Len(tokens) -> TokenConfidences]
    /\ confidence_threshold = 50
    /\ text = JoinTokens(tokens)
    /\ patternMatches \in EnhancedMatchSets(text)
    /\ candidates = predictions
    /\ processed = <<>>
    /\ loop_i = 0
    /\ pc = "call_enhancement"
    /\ output = <<>>
    /\ output2 = <<>>
    /\ apply_enhancement = TRUE
    /\ taggerOut = [p \in {} |-> <<>>]
    /\ dictMatches = <<>>
    /\ morphMatches = <<>>
    /\ boosterHits = {}
    /\ raising = {}
    /\ entities = <<>>
    /\ taggerCalls = 0
    /\ result = [returned |-> FALSE]
    /\ NoIntegration

NextPattern == PatternEnhancement

SpecPattern == InitPattern /\ [][NextPattern]_vars

\* The offset in ' '.join(toks) of the first character of token k (1-based)
RECURSIVE TokenOffset(_, _)
TokenOffset(toks, k) ==
    IF k = 1 THEN 0
    ELSE TokenOffset(toks, k - 1) + Len(toks[k - 1]) + 1

\* Token k (1-based) has a character inside the match
InsideMatch(toks, k, match) ==
    /\ TokenOffset(toks, k) < match.end
    /\ match.start < TokenOffset(toks, k) + Len(toks[k])

\* C28: _apply_pattern_enhancement returns a list of the same length as
\* predictions, leaves the caller's predictions list as it was passed, and
\* changes a tag only at token indices inside a pattern match and with a
\* confidence below confidence_threshold; every index whose confidence is
\* >= confidence_threshold keeps its tag.
C28_EnhancementFrame ==
    pc = "enhanced" =>
        /\ Len(output) = Len(candidates)
        /\ predictions = candidates
        /\ \A k \in 1..Len(candidates) :
              /\ output[k] # candidates[k] =>
                    /\ confidence_scores[k] < confidence_threshold
                    /\ \E m \in 1..Len(patternMatches) :
                          InsideMatch(tokens, k, patternMatches[m])
              /\ confidence_scores[k] >= confidence_threshold
                    => output[k] = candidates[k]

\* A match over two tokens changed the tag of the token of low confidence
\* and left the tag of the token whose confidence is the threshold
C28_Witness ==
    /\ pc = "enhanced"
    /\ \E k, n \in 1..Len(candidates) : \E m \in 1..Len(patternMatches) :
          /\ InsideMatch(tokens, k, patternMatches[m])
          /\ InsideMatch(tokens, n, patternMatches[m])
          /\ confidence_scores[k] < confidence_threshold
          /\ output[k] # candidates[k]
          /\ confidence_scores[n] = confidence_threshold
          /\ output[n] = candidates[n]

----------------------------------------------------------------------------
(* The spans of _intelligent_entity_merging and the overlap graph          *)

\* The candidates (by index) that an overlap path joins to those of S
RECURSIVE ComponentFrom(_)
ComponentFrom(S) ==
    LET T == S \cup {j \in 1..Len(candidates) :
                        \E k \in S : Overlap(candidates[k], candidates[j])}
    IN IF T = S THEN S ELSE ComponentFrom(T)

\* The connected component of candidate k in the overlap graph
Component(k) == ComponentFrom({k})

\* The least start and the greatest end of the candidates of S
MinStart(S) == CHOOSE x \in {candidates[k].start : k \in S} :
                   \A k \in S : x <= candidates[k].start
MaxEnd(S) == CHOOSE x \in {candidates[k].end : k \in S} :
                 \A k \in S : x >= candidates[k].end

\* The output entities whose span contains the span of candidate k
Containing(k) ==
    {j \in 1..Len(output) :
        /\ output[j].start <= candidates[k].start
        /\ candidates[k].end <= output[j].end}

Group(j) == {k \in 1..Len(candidates) : j \in Containing(k)}

\* C30: for every group of three or more candidates fused into one entity by
\* _intelligent_entity_merging, the entity's label and source are those of a
\* candidate whose quality score, computed on the candidate as it entered the
\* merge, is maximal in the group: an earlier winner gains nothing from having
\* its confidence replaced by its score.
C30_WinnerHasMaximalScore ==
    (pc = "merged" /\ WellFormed(candidates)) =>
        \A j \in 1..Len(output) :
            Cardinality(Group(j)) >= 3 =>
                \E k \in Group(j) :
                    /\ \A n \in Group(j) :
                          CalculateQualityScore(candidates[k])
                              >= CalculateQualityScore(candidates[n])
                    /\ output[j].label = candidates[k].label
                    /\ output[j].source = candidates[k].source

====
